---- MODULE Spec2Model ----
(***************************************************************************)
(* Sheet row allocator of the Slack expense bot (SheetsService, latest     *)
(* revision) together with the parts of the Sheets and Drive stores it     *)
(* talks to.                                                               *)
(*                                                                         *)
(* Strings are sequences of tokens: a cell, a title or a date is a         *)
(* sequence such as <<"2025","-","02">>; amount strings are sequences of   *)
(* single characters.  The blank string is <<>>.                           *)
(* A JavaScript value that may be undefined is a sequence of length at     *)
(* most one: <<>> is undefined, <<v>> is the value v.  A JavaScript number *)
(* that may be NaN is modelled the same way: <<>> is NaN.                  *)
(***************************************************************************)
EXTENDS Integers, Sequences, FiniteSets, TLC

\* ---------------------------------------------------------------- bounds
NumCalls == 2
MaxOddRows == 1
MaxAggRows == 2
MaxAmountLen == 3
MaxPdfs == 3
MaxBookmarks == 2

\* the minutes the clock of the session service runs
MaxTime == 6

\* ------------------------------------------------------ program constants
FirstRow == 2
WindowRows == 25
TotalRow == 27
LinkRow == 3

Rows == FirstRow..TotalRow
Cols == {"A", "B", "C", "D", "E", "G"}
LastRow == FirstRow + WindowRows - 1

\* ----------------------------------------------------- JavaScript values
Undefined == <<>>
NaN == <<>>
Blank == <<>>

\* !x for a string x
Falsy(s) == s = Blank

\* !x for a value x that is undefined or a string
FalsyOpt(o) == o = Undefined \/ o[1] = Blank

\* arr[i] for a 0-based index i: undefined beyond the end of the array
At(arr, i) == IF i + 1 \in 1..Len(arr) THEN <<arr[i + 1]>> ELSE Undefined

\* obj.field: undefined when the object has no such property
Get(obj, field) == IF field \in DOMAIN obj THEN <<obj[field]>> ELSE Undefined

\* `${x}` for a value x that is undefined or a string
Interpolate(o) == IF o = Undefined THEN <<"undefined">> ELSE o[1]

RECURSIVE ReplaceAll(_, _, _)
ReplaceAll(s, from, to) ==
  IF s = <<>> THEN <<>>
  ELSE <<IF Head(s) = from THEN to ELSE Head(s)>> \o ReplaceAll(Tail(s), from, to)

RECURSIVE ReplaceFirst(_, _, _)
ReplaceFirst(s, from, to) ==
  IF s = <<>> THEN <<>>
  ELSE IF Head(s) = from THEN <<to>> \o Tail(s)
  ELSE <<Head(s)>> \o ReplaceFirst(Tail(s), from, to)

RECURSIVE RemoveAll(_, _)
RemoveAll(s, chars) ==
  IF s = <<>> THEN <<>>
  ELSE (IF Head(s) \in chars THEN <<>> ELSE <<Head(s)>>) \o RemoveAll(Tail(s), chars)

DigitChars == <<"0", "1", "2", "3", "4", "5", "6", "7", "8", "9">>

IsDigit(c) == \E d \in 1..10 : DigitChars[d] = c

DigitValue(c) == (CHOOSE d \in 1..10 : DigitChars[d] = c) - 1

\* the formatted value the store returns for a number written to a cell
RECURSIVE NumToStr(_)
NumToStr(n) ==
  IF n < 10 THEN <<DigitChars[n + 1]>>
  ELSE NumToStr(n \div 10) \o <<DigitChars[(n % 10) + 1]>>

RECURSIVE SkipSpaces(_)
SkipSpaces(s) == IF s # <<>> /\ Head(s) = " " THEN SkipSpaces(Tail(s)) ELSE s

RECURSIVE DigitPrefix(_, _)
DigitPrefix(s, acc) ==
  IF s # <<>> /\ IsDigit(Head(s))
  THEN DigitPrefix(Tail(s), <<(IF acc = NaN THEN 0 ELSE acc[1]) * 10 + DigitValue(Head(s))>>)
  ELSE acc

\* parseInt(s, 10): leading blanks, an optional sign, then the longest run
\* of digits; NaN when there is no digit
ParseInt(s) ==
  LET t == SkipSpaces(s)
      neg == t # <<>> /\ Head(t) = "-"
      u == IF t # <<>> /\ Head(t) \in {"-", "+"} THEN Tail(t) ELSE t
      v == DigitPrefix(u, NaN)
  IN IF v = NaN THEN NaN ELSE IF neg THEN <<0 - v[1]>> ELSE v

isNaN(x) == x = NaN

\* a + b on numbers
Plus(a, b) == IF a = NaN \/ b = NaN THEN NaN ELSE <<a[1] + b[1]>>

\* ------------------------------------------------- SheetsService helpers
\* the characters U+00A5 and U+FFE5
YenSign == "YEN"
FullwidthYenSign == "FWYEN"

\* a parse that strips the halfwidth yen sign and the separators only
parseAmountHalfwidthOnly(value) ==
  IF Falsy(value) THEN NaN
  ELSE ParseInt(RemoveAll(value, {YenSign, ","}))


parseAmount(value) ==
  IF Falsy(value) THEN NaN
  ELSE ParseInt(RemoveAll(value, {YenSign, FullwidthYenSign, ","}))

formatSheetName(yearMonth) == ReplaceFirst(yearMonth, "-", "_")

parseSheetName(sheetName) == ReplaceFirst(sheetName, "_", "-")

formatDate(date, useSlash) ==
  IF Falsy(date) THEN Blank
  ELSE IF useSlash THEN ReplaceAll(date, "-", "/") ELSE date

\* date.substring(0, 7) of a YYYY-MM-DD date: the tokens YYYY, -, MM
Substring07(date) == SubSeq(date, 1, 3)

BaseTitle == <<"_base">>
\* the text the code substitutes for missing details
DefaultDetails == <<"(no details)">>


UserId == <<"U1">>
UserEmail == <<"u1@example.com">>
RootFolderId == 0

Max(S) == CHOOSE x \in S : \A y \in S : y <= x
Min(S) == CHOOSE x \in S : \A y \in S : x <= y

\* --------------------------------------------------- the spreadsheet store
\* A spreadsheet is a sequence of worksheets
\* [sheetId, title, cells], cells[r][c] the formatted value of cell c r.

BlankRow == [c \in Cols |-> Blank]

\* the _base template: No 1..25 in A2:A26, everything else blank
TemplateCells ==
  [r \in Rows |-> IF r <= LastRow THEN [BlankRow EXCEPT !["A"] = NumToStr(r - 1)]
                  ELSE BlankRow]

HasTitle(ss, title) == \E i \in 1..Len(ss) : ss[i].title = title

SheetByTitle(ss, title) == ss[Min({i \in 1..Len(ss) : ss[i].title = title})]

\* spreadsheets.get with fields sheets.properties
SpreadsheetsGet(ss) ==
  [i \in 1..Len(ss) |->
     [properties |-> [sheetId |-> ss[i].sheetId, title |-> ss[i].title]]]

\* Array.prototype.find on the sheet list: the first sheet whose title is
\* one of the given names, or undefined
FindByTitle(list, names) ==
  LET I == {i \in 1..Len(list) : list[i].properties.title \in names}
  IN IF I = {} THEN Undefined ELSE <<list[Min(I)]>>

TrimBlanks(seq) ==
  SubSeq(seq, 1, Max({0} \cup {i \in 1..Len(seq) : seq[i] # <<>>}))

\* spreadsheets.values.get of columns cols, rows r1..r2 of one worksheet:
\* trailing blank cells of a row and trailing blank rows are omitted
ValuesGet(ss, title, cols, r1, r2) ==
  LET cells == SheetByTitle(ss, title).cells
      RowOf(r) == TrimBlanks([j \in 1..Len(cols) |-> cells[r][cols[j]]])
  IN TrimBlanks([k \in 1..(r2 - r1 + 1) |-> RowOf(r1 + k - 1)])

\* spreadsheets.values.update of columns cols of row r of one worksheet
ValuesUpdate(ss, title, r, cols, vals) ==
  LET i == Min({k \in 1..Len(ss) : ss[k].title = title})
  IN [ss EXCEPT ![i].cells[r] =
        [c \in Cols |-> IF \E j \in 1..Len(cols) : cols[j] = c
                        THEN vals[CHOOSE j \in 1..Len(cols) : cols[j] = c]
                        ELSE @[c]]]

InsertAt(seq, idx, x) ==
  SubSeq(seq, 1, idx) \o <<x>> \o SubSeq(seq, idx + 1, Len(seq))

\* batchUpdate duplicateSheet: the store refuses a title that is taken
DuplicateSheetOk(ss, sourceSheetId, newSheetName) ==
  /\ \E i \in 1..Len(ss) : ss[i].sheetId = sourceSheetId
  /\ ~HasTitle(ss, newSheetName)

DuplicateSheet(ss, sourceSheetId, insertSheetIndex, newSheetName, newId) ==
  LET src == ss[CHOOSE i \in 1..Len(ss) : ss[i].sheetId = sourceSheetId]
      idx == IF insertSheetIndex <= Len(ss) THEN insertSheetIndex ELSE Len(ss)
  IN InsertAt(ss, idx, [sheetId |-> newId, title |-> newSheetName, cells |-> src.cells])

\* replies[0].duplicateSheet of the batchUpdate response
DuplicateSheetReply(newId, newSheetName) ==
  [properties |-> [sheetId |-> newId, title |-> newSheetName]]

\* ------------------------------------------------------- the Drive store
\* folders: a set of [id, name, parent, readers]

\* a lookup that asks for the folder's own id among its parents, and so
\* finds nothing
FoldersNamedOwnId(fs, name, parentId) == {f \in fs : f.name = name /\ f.parent = f.id}

FoldersNamed(fs, name, parentId) == {f \in fs : f.name = name /\ f.parent = parentId}

\* DriveService.ensureFolder: <<folders after the call, folder id>>
ensureFolder(fs, newId, name, parentId, setPermission) ==
  LET found == FoldersNamed(fs, name, parentId)
  IN IF found # {}
     THEN <<fs, Min({f.id : f \in found})>>
     ELSE <<fs \cup {[id |-> newId, name |-> name, parent |-> parentId,
                      readers |-> IF setPermission THEN {UserEmail} ELSE {}]},
            newId>>

\* DriveService.getOrCreateMonthFolder: <<folders after the call, folder id>>
getOrCreateMonthFolder(fs, newId, userId, yearMonth) ==
  LET u == ensureFolder(fs, newId, userId, RootFolderId, TRUE)
      m == ensureFolder(u[1], newId + 1, yearMonth, u[2], FALSE)
  IN m

\* ------------------------------------------------------------ findEmptyRow
EveryBlank(row) == \A j \in 1..Len(row) : Falsy(row[j])

\* the scan condition without its test of columns B-E
IsEmptyRowNoOnly(noValues, dataValues, i) ==
  LET noRow == At(noValues, i)
      hasNo == IF noRow = Undefined THEN Undefined ELSE At(noRow[1], 0)
  IN ~FalsyOpt(hasNo)

\* the condition of the scan loop for index i
IsEmptyRow(noValues, dataValues, i) ==
  LET noRow == At(noValues, i)
      hasNo == IF noRow = Undefined THEN Undefined ELSE At(noRow[1], 0)
      dataRow == At(dataValues, i)
      row == IF dataRow = Undefined THEN <<>> ELSE dataRow[1]
  IN ~FalsyOpt(hasNo) /\ EveryBlank(row)

\* the scan of the earlier revision: for (i = 0; i < values.length; i++)
\* over the B-E response alone
RECURSIVE ScanRowsDataOnly(_, _, _)
ScanRowsDataOnly(noValues, dataValues, i) ==
  IF i >= Len(dataValues) THEN Undefined
  ELSE IF EveryBlank(dataValues[i + 1]) THEN <<i + FirstRow>>
  ELSE ScanRowsDataOnly(noValues, dataValues, i + 1)

\* for (let i = 0; i < 25; i++) ... return i + 2; undefined when the loop
\* runs to its end
RECURSIVE ScanRows(_, _, _)
ScanRows(noValues, dataValues, i) ==
  IF i >= WindowRows THEN Undefined
  ELSE IF IsEmptyRow(noValues, dataValues, i) THEN <<i + FirstRow>>
  ELSE ScanRows(noValues, dataValues, i + 1)

\* the row number findEmptyRow returns, undefined when it throws
findEmptyRow(ss, sheetTitle) ==
  ScanRows(ValuesGet(ss, sheetTitle, <<"A">>, FirstRow, LastRow),
           ValuesGet(ss, sheetTitle, <<"B", "C", "D", "E">>, FirstRow, LastRow), 0)

\* ------------------------------------------------------- getStatus/getList
\* row[j] of a response row, blank when the cell was omitted
CellAt(row, j) == IF At(row, j) = Undefined THEN Blank ELSE At(row, j)[1]

\* an aggregation that keeps a row whose amount does not parse, as amount 0
EntriesUnparsableAsZero(values) ==
  LET kept == SelectSeq(values, LAMBDA row : ~Falsy(CellAt(row, 0)) /\ ~Falsy(CellAt(row, 1)))
  IN [k \in 1..Len(kept) |->
        [date |-> CellAt(kept[k], 0),
         amount |-> IF isNaN(parseAmount(CellAt(kept[k], 1))) THEN <<0>>
                    ELSE parseAmount(CellAt(kept[k], 1)),
         details |-> IF Falsy(CellAt(kept[k], 2)) THEN DefaultDetails
                     ELSE CellAt(kept[k], 2)]]

\* values.filter(row => row[0] && row[1]).map(...).filter(!isNaN(amount))
Entries(values) ==
  LET kept == SelectSeq(values, LAMBDA row : ~Falsy(CellAt(row, 0)) /\ ~Falsy(CellAt(row, 1)))
      mapped == [k \in 1..Len(kept) |->
                   [date |-> CellAt(kept[k], 0),
                    amount |-> parseAmount(CellAt(kept[k], 1)),
                    details |-> IF Falsy(CellAt(kept[k], 2)) THEN DefaultDetails
                                ELSE CellAt(kept[k], 2)]]
  IN SelectSeq(mapped, LAMBDA e : ~isNaN(e.amount))

RECURSIVE SumAmounts(_)
SumAmounts(entries) ==
  IF entries = <<>> THEN <<0>>
  ELSE Plus(SumAmounts(SubSeq(entries, 1, Len(entries) - 1)), entries[Len(entries)].amount)

\* totalResponse.data.values?.[0]?.[0]
TotalCell(totalValues) ==
  IF At(totalValues, 0) = Undefined THEN Undefined ELSE At(At(totalValues, 0)[1], 0)

\* the total field of the result
Total(totalValues, entries) ==
  LET total == IF ~FalsyOpt(TotalCell(totalValues))
               THEN parseAmount(TotalCell(totalValues)[1])
               ELSE SumAmounts(entries)
  IN IF isNaN(total) THEN <<0>> ELSE total


\* ------------------------------------------------------------------ state
VARIABLES
  sheets,        \* the user's spreadsheet: its worksheets, in order
  nextSheetId,   \* the id the store gives the next worksheet
  folders,       \* the Drive folders
  nextFolderId,  \* the id the store gives the next folder or file
  files,         \* the Drive files that are not folders
  pc,            \* where each call stands
  call,          \* the operation and arguments of each call
  local,         \* baseSheet id, sheets.length, duplicateSheet reply, monthFolder of a call
  sheetRet,      \* what getOrCreateSheet returned to the call
  rowNumber,     \* what findEmptyRow returned to the call
  result,        \* what the call returned or threw
  slack,         \* the messages and files posted to Slack, in order
  settings,      \* the rows of the user_settings sheet below its header
  sessions,      \* SessionService.sessions: the session stored under each key
  timers,        \* the setTimeout callbacks that have not run: key and due time
  now            \* Date.now(), in minutes

serviceVars == <<slack, settings, sessions, timers, now>>

vars == <<sheets, nextSheetId, folders, nextFolderId, files, pc, call, local, sheetRet, rowNumber, result,
          slack, settings, sessions, timers, now>>

Procs == 1..NumCalls

Months == {<<"2025", "-", "02">>, <<"2025", "-", "03">>}

NoEntry == [date |-> Blank, amount |-> 0, details |-> Blank, memo |-> Blank, fileUrl |-> Blank]

\* the entries a caller submits
EntryInputs ==
  { [date |-> <<"2025", "-", "02", "-", "10">>, amount |-> 1500,
     details |-> Blank, memo |-> Blank, fileUrl |-> Blank],
    [date |-> <<"2025", "-", "02", "-", "11">>, amount |-> 2000,
     details |-> <<"taxi">>, memo |-> <<"memo">>, fileUrl |-> <<"https://drive/file">>] }

MsgNoBase == "_base sheet not found"
MsgGocsFailed == "sheet get/create failed"
MsgNoSheetTitle == "sheet title not given"
MsgNoEmptyRow == "no empty row"
MsgAddFailed == "adding the entry failed"
MsgStatusFailed == "getting the status failed"
MsgListFailed == "getting the list failed"
MsgAdded == "expense registered"

Thrown(name, operation, message) ==
  [kind |-> "throw", name |-> name, operation |-> operation, message |-> message,
   value |-> <<>>]

Returned(value) ==
  [kind |-> "return", name |-> "", operation |-> "", message |-> "", value |-> value]

NoResult == [kind |-> "none", name |-> "", operation |-> "", message |-> "", value |-> <<>>]

NoSheet == [sheetId |-> Undefined, title |-> Undefined]

NoLocal == [baseSheetId |-> 0, sheetsLength |-> 0, newSheet |-> <<>>, monthFolder |-> 0]

\* new SheetsError(message, userId, operation)
SheetsError(message, operation) == Thrown("SheetsError", operation, message)

\* the columns and values of the row addEntry writes
EntryCols == <<"B", "C", "D", "E">>

EntryValues(e) ==
  << formatDate(e.date, FALSE),
     NumToStr(e.amount),
     IF Falsy(e.details) THEN DefaultDetails ELSE e.details,
     IF Falsy(e.memo) THEN Blank ELSE e.memo >>

\* sheets.find(s => title === sheetName || title === yearMonth)
FindMonthSheet(list, sheetName, yearMonth) == FindByTitle(list, {sheetName, yearMonth})

\* the found sheet read without its properties level
FoundSheetResultNoProperties(sheet) ==
  [sheetId |-> Get(sheet, "sheetId"), title |-> Get(sheet, "title")]

\* return {sheetId: sheet.properties.sheetId, title: sheet.properties.title}
FoundSheetResult(sheet) ==
  [sheetId |-> <<sheet.properties.sheetId>>, title |-> <<sheet.properties.title>>]

\* return {sheetId: newSheet.sheetId, title: newSheet.title}
NewSheetResult(newSheet) ==
  [sheetId |-> Get(newSheet, "sheetId"), title |-> Get(newSheet, "title")]

\* the value of D3: formatDate(`${yearMonth}-01`, true)
FirstDayCell(yearMonth) == formatDate(yearMonth \o <<"-", "01">>, TRUE)

\* the value of G3: =HYPERLINK(folder url, label)
FolderLinkCell(monthFolder) == <<"=HYPERLINK">> \o NumToStr(monthFolder)

\* ---------------------------------------------------------------- actions
StartCall(p, op, yearMonth, entry) ==
  /\ pc[p] = "idle"
  /\ pc' = [pc EXCEPT ![p] = "gocs_get"]
  /\ call' = [call EXCEPT ![p] = [op |-> op, yearMonth |-> yearMonth, entry |-> entry]]
  /\ UNCHANGED <<sheets, nextSheetId, folders, nextFolderId, files, local, sheetRet, rowNumber, result, serviceVars>>

\* addEntry({userId, date, amount, details, memo, fileUrl}) is called
CallAddEntry(p) ==
  \E e \in EntryInputs : StartCall(p, "addEntry", Substring07(e.date), e)

\* getOrCreateSheet(userId, yearMonth) is called
CallGetOrCreateSheet(p) ==
  \E m \in Months : StartCall(p, "getOrCreateSheet", m, NoEntry)

\* getStatus(userId, yearMonth) is called
CallGetStatus(p) ==
  \E m \in Months : StartCall(p, "getStatus", m, NoEntry)

\* getList(userId, yearMonth) is called
CallGetList(p) ==
  \E m \in Months : StartCall(p, "getList", m, NoEntry)

\* getOrCreateSheet returns ret to its caller
GocsReturn(p, ret) ==
  /\ sheetRet' = [sheetRet EXCEPT ![p] = ret]
  /\ IF call[p].op = "getOrCreateSheet"
     THEN /\ pc' = [pc EXCEPT ![p] = "done"]
          /\ result' = [result EXCEPT ![p] = Returned(ret)]
     ELSE /\ pc' = [pc EXCEPT ![p] = IF call[p].op = "addEntry" THEN "find" ELSE "read"]
          /\ UNCHANGED result

\* getOrCreateSheet throws: its catch wraps every error, and the catch of
\* the calling operation wraps that one
GocsThrow(p) ==
  /\ pc' = [pc EXCEPT ![p] = "done"]
  /\ result' = [result EXCEPT ![p] =
       CASE call[p].op = "getOrCreateSheet" -> SheetsError(MsgGocsFailed, "getOrCreateSheet")
         [] call[p].op = "addEntry" -> SheetsError(MsgGocsFailed, "addEntry")
         [] call[p].op = "getStatus" -> SheetsError(MsgStatusFailed, "getStatus")
         [] OTHER -> SheetsError(MsgListFailed, "getList")]
  /\ UNCHANGED sheetRet

\* getOrCreateSheet: spreadsheets.get, the lookup of the month's sheet and of _base
GetSheetList(p) ==
  /\ pc[p] = "gocs_get"
  /\ LET sheetName == formatSheetName(call[p].yearMonth)
         list == SpreadsheetsGet(sheets)
         sheet == FindMonthSheet(list, sheetName, call[p].yearMonth)
         baseSheet == FindByTitle(list, {BaseTitle})
     IN IF sheet # Undefined
        THEN /\ GocsReturn(p, FoundSheetResult(sheet[1]))
             /\ UNCHANGED local
        ELSE IF baseSheet = Undefined
        THEN GocsThrow(p) /\ UNCHANGED local
        ELSE /\ pc' = [pc EXCEPT ![p] = "gocs_dup"]
             /\ local' = [local EXCEPT ![p].baseSheetId = baseSheet[1].properties.sheetId,
                                       ![p].sheetsLength = Len(list)]
             /\ UNCHANGED <<sheetRet, result>>
  /\ UNCHANGED <<sheets, nextSheetId, folders, nextFolderId, files, call, rowNumber, serviceVars>>

\* getOrCreateSheet: batchUpdate duplicateSheet of _base
DuplicateBase(p) ==
  /\ pc[p] = "gocs_dup"
  /\ LET sheetName == formatSheetName(call[p].yearMonth)
     IN IF DuplicateSheetOk(sheets, local[p].baseSheetId, sheetName)
        THEN /\ sheets' = DuplicateSheet(sheets, local[p].baseSheetId, local[p].sheetsLength,
                                         sheetName, nextSheetId)
             /\ nextSheetId' = nextSheetId + 1
             /\ local' = [local EXCEPT ![p].newSheet = DuplicateSheetReply(nextSheetId, sheetName)]
             /\ pc' = [pc EXCEPT ![p] = "gocs_folder"]
             /\ UNCHANGED <<sheetRet, result>>
        ELSE /\ GocsThrow(p)
             /\ UNCHANGED <<sheets, nextSheetId, local>>
  /\ UNCHANGED <<folders, nextFolderId, files, call, rowNumber, serviceVars>>

\* getOrCreateSheet: driveService.getOrCreateMonthFolder
MonthFolder(p) ==
  /\ pc[p] = "gocs_folder"
  /\ LET r == getOrCreateMonthFolder(folders, nextFolderId, UserId, call[p].yearMonth)
     IN /\ folders' = r[1]
        /\ nextFolderId' = nextFolderId + Cardinality(r[1]) - Cardinality(folders)
        /\ local' = [local EXCEPT ![p].monthFolder = r[2]]
  /\ pc' = [pc EXCEPT ![p] = "gocs_write"]
  /\ UNCHANGED <<sheets, nextSheetId, files, call, sheetRet, rowNumber, result, serviceVars>>

\* getOrCreateSheet: the two values.update of D3 and G3, then the return
WriteFirstDay(p) ==
  /\ pc[p] = "gocs_write"
  /\ LET sheetName == formatSheetName(call[p].yearMonth)
         newSheet == local[p].newSheet
     IN /\ sheets' = ValuesUpdate(
                       ValuesUpdate(sheets, sheetName, LinkRow, <<"D">>,
                                    <<FirstDayCell(call[p].yearMonth)>>),
                       sheetName, LinkRow, <<"G">>, <<FolderLinkCell(local[p].monthFolder)>>)
        /\ GocsReturn(p, NewSheetResult(newSheet))
  /\ UNCHANGED <<nextSheetId, folders, nextFolderId, files, call, local, rowNumber, serviceVars>>

\* addEntry: findEmptyRow(spreadsheetId, sheet.title)
FindEmptyRow(p) ==
  /\ pc[p] = "find"
  /\ IF FalsyOpt(sheetRet[p].title)
     THEN /\ pc' = [pc EXCEPT ![p] = "done"]
          /\ result' = [result EXCEPT ![p] = SheetsError(MsgNoSheetTitle, "addEntry")]
          /\ UNCHANGED rowNumber
     ELSE LET r == findEmptyRow(sheets, sheetRet[p].title[1])
          IN IF r = Undefined
             THEN /\ pc' = [pc EXCEPT ![p] = "done"]
                  /\ result' = [result EXCEPT ![p] = SheetsError(MsgNoEmptyRow, "addEntry")]
                  /\ UNCHANGED rowNumber
             ELSE /\ pc' = [pc EXCEPT ![p] = "update"]
                  /\ rowNumber' = [rowNumber EXCEPT ![p] = r[1]]
                  /\ UNCHANGED result
  /\ UNCHANGED <<sheets, nextSheetId, folders, nextFolderId, files, call, local, sheetRet, serviceVars>>

AddEntryResult(p) ==
  Returned([success |-> TRUE, message |-> MsgAdded, sheetId |-> sheetRet[p].sheetId])

\* a write that allocates its row again when the row found is taken
WriteEntryAppend(ss, title, r, e) ==
  LET cells == SheetByTitle(ss, title).cells
      free == \A j \in 1..Len(EntryCols) : Falsy(cells[r][EntryCols[j]])
      again == findEmptyRow(ss, title)
  IN IF free THEN ValuesUpdate(ss, title, r, EntryCols, EntryValues(e))
     ELSE IF again = Undefined THEN ss
     ELSE ValuesUpdate(ss, title, again[1], EntryCols, EntryValues(e))

\* the worksheets after addEntry has written its row
WriteEntry(ss, title, r, e) == ValuesUpdate(ss, title, r, EntryCols, EntryValues(e))

\* addEntry: values.update of B..E of the row found
UpdateRow(p) ==
  /\ pc[p] = "update"
  /\ sheets' = WriteEntry(sheets, sheetRet[p].title[1], rowNumber[p], call[p].entry)
  /\ IF ~Falsy(call[p].entry.fileUrl)
     THEN pc' = [pc EXCEPT ![p] = "link"] /\ UNCHANGED result
     ELSE /\ pc' = [pc EXCEPT ![p] = "done"]
          /\ result' = [result EXCEPT ![p] = AddEntryResult(p)]
  /\ UNCHANGED <<nextSheetId, folders, nextFolderId, files, call, local, sheetRet, rowNumber, serviceVars>>

\* addEntry: values.update of G of the row found, then the return
UpdateLink(p) ==
  /\ pc[p] = "link"
  /\ sheets' = ValuesUpdate(sheets, sheetRet[p].title[1], rowNumber[p], <<"G">>,
                            <<call[p].entry.fileUrl>>)
  /\ pc' = [pc EXCEPT ![p] = "done"]
  /\ result' = [result EXCEPT ![p] = AddEntryResult(p)]
  /\ UNCHANGED <<nextSheetId, folders, nextFolderId, files, call, local, sheetRet, rowNumber, serviceVars>>

\* the result of getStatus from the two responses
StatusResult(yearMonth, values, totalValues, sheetId) ==
  LET entries == Entries(values)
  IN [yearMonth |-> yearMonth,
      count |-> Len(entries),
      total |-> Total(totalValues, entries),
      lastUpdate |-> IF Len(entries) > 0 THEN <<entries[Len(entries)].date>> ELSE <<>>,
      sheetId |-> sheetId]

\* the result of getList from the two responses
ListResult(yearMonth, values, totalValues, sheetId) ==
  LET entries == Entries(values)
  IN [yearMonth |-> yearMonth,
      entries |-> entries,
      total |-> Total(totalValues, entries),
      sheetId |-> sheetId]

\* getStatus, getList: the two values.get and the aggregation
ReadEntries(p) ==
  /\ pc[p] = "read"
  /\ pc' = [pc EXCEPT ![p] = "done"]
  /\ LET title == Interpolate(sheetRet[p].title)
     IN IF ~HasTitle(sheets, title)
        THEN result' = [result EXCEPT ![p] =
               IF call[p].op = "getStatus" THEN SheetsError(MsgStatusFailed, "getStatus")
               ELSE SheetsError(MsgListFailed, "getList")]
        ELSE LET totalValues == ValuesGet(sheets, title, <<"C">>, TotalRow, TotalRow)
             IN result' = [result EXCEPT ![p] =
                  IF call[p].op = "getStatus"
                  THEN Returned(StatusResult(call[p].yearMonth,
                         ValuesGet(sheets, title, <<"B", "C">>, FirstRow, LastRow),
                         totalValues, sheetRet[p].sheetId))
                  ELSE Returned(ListResult(call[p].yearMonth,
                         ValuesGet(sheets, title, <<"B", "C", "D">>, FirstRow, LastRow),
                         totalValues, sheetRet[p].sheetId))]
  /\ UNCHANGED <<sheets, nextSheetId, folders, nextFolderId, files, call, local, sheetRet, rowNumber, serviceVars>>


\* ---------------------------------------------------------- initial states
BaseSheet == [sheetId |-> 0, title |-> BaseTitle, cells |-> TemplateCells]

InitMonth == <<"2025", "-", "02">>

\* an entry registered before the calls of the model
SeedEntry ==
  [date |-> <<"2025", "-", "02", "-", "01">>, amount |-> 1000,
   details |-> <<"seed">>, memo |-> Blank, fileUrl |-> Blank]

\* a month sheet as getOrCreateSheet leaves it
CreatedSheet(title, yearMonth, sheetId, monthFolder) ==
  [sheetId |-> sheetId, title |-> title,
   cells |-> [TemplateCells EXCEPT ![LinkRow]["D"] = FirstDayCell(yearMonth),
                                   ![LinkRow]["G"] = FolderLinkCell(monthFolder)]]

\* the worksheets after n more entries were added one after the other
RECURSIVE WithEntries(_, _, _)
WithEntries(ss, title, n) ==
  IF n = 0 \/ findEmptyRow(ss, title) = Undefined THEN ss
  ELSE WithEntries(WriteEntry(ss, title, findEmptyRow(ss, title)[1], SeedEntry), title, n - 1)

\* how many entries the month sheet holds at the start
InitEntryCounts == {0, 23, 24}

InitMonthSheets ==
  { WithEntries(<<CreatedSheet(t, InitMonth, 1, 2)>>, t, n) :
      t \in {formatSheetName(InitMonth), InitMonth}, n \in InitEntryCounts }

InitFolders ==
  { [id |-> 1, name |-> UserId, parent |-> RootFolderId, readers |-> {UserEmail}],
    [id |-> 2, name |-> InitMonth, parent |-> 1, readers |-> {}] }

\* nothing posted, no settings row, no session, no timer
InitServices ==
  /\ slack = <<>>
  /\ settings = <<>>
  /\ sessions = {}
  /\ timers = {}
  /\ now = 0

InitCalls ==
  /\ pc = [p \in Procs |-> "idle"]
  /\ call = [p \in Procs |-> [op |-> "none", yearMonth |-> Blank, entry |-> NoEntry]]
  /\ local = [p \in Procs |-> NoLocal]
  /\ sheetRet = [p \in Procs |-> NoSheet]
  /\ rowNumber = [p \in Procs |-> 0]
  /\ result = [p \in Procs |-> NoResult]

Init ==
  /\ InitServices
  /\ \E base \in {<<>>, <<BaseSheet>>} :
       \/ /\ sheets = base
          /\ folders = {}
          /\ nextFolderId = 1
       \/ /\ \E month \in InitMonthSheets : sheets = base \o month
          /\ folders = InitFolders
          /\ nextFolderId = 3
  /\ nextSheetId = 2
  /\ files = {}
  /\ InitCalls

Step(p) ==
  \/ CallAddEntry(p)
  \/ CallGetOrCreateSheet(p)
  \/ CallGetStatus(p)
  \/ CallGetList(p)
  \/ GetSheetList(p)
  \/ DuplicateBase(p)
  \/ MonthFolder(p)
  \/ WriteFirstDay(p)
  \/ FindEmptyRow(p)
  \/ UpdateRow(p)
  \/ UpdateLink(p)
  \/ ReadEntries(p)

\* calls whose steps interleave
Next == \E p \in Procs : Step(p)

Spec == Init /\ [][Next]_vars

\* calls made one after the other: a call starts when the calls before it
\* have returned
NextSeq == \E p \in Procs : (\A q \in Procs : q < p => pc[q] = "done") /\ Step(p)

SpecSeq == Init /\ [][NextSeq]_vars


\* ------------------------------------------- findEmptyRow on any window
\* the shapes a row of the window can have
RowKinds == {"free", "used", "bare", "unnumbered", "onlyB", "onlyE"}

\* row r of the window in the given shape
RowOfKind(kind, r) ==
  [c \in Cols |->
     CASE c = "A" -> IF kind \in {"bare", "unnumbered"} THEN Blank ELSE NumToStr(r - 1)
       [] c = "B" -> IF kind \in {"used", "unnumbered", "onlyB"} THEN SeedEntry.date ELSE Blank
       [] c = "C" -> IF kind \in {"used", "unnumbered"} THEN NumToStr(SeedEntry.amount) ELSE Blank
       [] c = "D" -> IF kind \in {"used", "unnumbered"} THEN SeedEntry.details ELSE Blank
       [] c = "E" -> IF kind \in {"used", "unnumbered", "onlyE"} THEN <<"memo">> ELSE Blank
       [] OTHER -> Blank]

\* how many rows at the top of the window are used
PrefixLengths == {0, 1, WindowRows - 1, WindowRows}

\* a window: `used` rows on top, the rest in the shape `tail`, except the
\* rows of `odd`, which have the shape odd[r]
WindowCells(used, tail, odd) ==
  [r \in Rows |->
     IF r > LastRow THEN BlankRow
     ELSE IF r \in DOMAIN odd THEN RowOfKind(odd[r], r)
     ELSE IF r - FirstRow < used THEN RowOfKind("used", r)
     ELSE RowOfKind(tail, r)]

OddRowChoices ==
  UNION { [S -> RowKinds] : S \in {T \in SUBSET (FirstRow..LastRow) : Cardinality(T) <= MaxOddRows} }

\* one addEntry call that has resolved the month sheet and is about to
\* call findEmptyRow, on a sheet with any of the windows above
InitFind ==
  /\ InitServices
  /\ \E used \in PrefixLengths, tail \in {"free", "bare"}, odd \in OddRowChoices :
       sheets = <<BaseSheet,
                  [sheetId |-> 1, title |-> formatSheetName(InitMonth),
                   cells |-> WindowCells(used, tail, odd)]>>
  /\ nextSheetId = 2
  /\ files = {}
  /\ folders = InitFolders
  /\ nextFolderId = 3
  /\ pc = [p \in Procs |-> IF p = 1 THEN "find" ELSE "done"]
  /\ \E e \in EntryInputs :
       call = [p \in Procs |-> IF p = 1
                               THEN [op |-> "addEntry", yearMonth |-> Substring07(e.date), entry |-> e]
                               ELSE [op |-> "none", yearMonth |-> Blank, entry |-> NoEntry]]
  /\ local = [p \in Procs |-> NoLocal]
  /\ sheetRet = [p \in Procs |-> IF p = 1
                                 THEN [sheetId |-> <<1>>, title |-> <<formatSheetName(InitMonth)>>]
                                 ELSE NoSheet]
  /\ rowNumber = [p \in Procs |-> 0]
  /\ result = [p \in Procs |-> NoResult]

NextFind == \E p \in Procs : FindEmptyRow(p)

SpecFind == InitFind /\ [][NextFind]_vars

\* ------------------------------------- getStatus, getList on any amounts
\* what column C of an entry row or C27 can show
AmountCells ==
  { Blank,
    <<"1", "0", "0", "0">>,
    <<YenSign, "1", ",", "2", "3", "4">>,
    <<"a", "b", "c">>,
    <<"5", "x">> }

TotalCells ==
  { Blank,
    <<"3", "0", "0", "0">>,
    <<FullwidthYenSign, "2", ",", "2", "3", "4">>,
    <<"#", "R", "E", "F", "!">> }

DateCells == {Blank, SeedEntry.date}

AggRows == FirstRow..(FirstRow + MaxAggRows - 1)

\* the month sheet with the given dates and amounts in its first rows and
\* the given content of C27
AggCells(dates, amounts, totalCell) ==
  [r \in Rows |->
     [c \in Cols |->
        IF r \in AggRows /\ c = "B" THEN dates[r]
        ELSE IF r \in AggRows /\ c = "C" THEN amounts[r]
        ELSE IF r = TotalRow /\ c = "C" THEN totalCell
        ELSE TemplateCells[r][c]]]

\* one getStatus or getList call that has resolved the month sheet and is
\* about to read it
InitAgg ==
  /\ InitServices
  /\ \E dates \in [AggRows -> DateCells], amounts \in [AggRows -> AmountCells],
        totalCell \in TotalCells :
       sheets = <<BaseSheet,
                  [sheetId |-> 1, title |-> formatSheetName(InitMonth),
                   cells |-> AggCells(dates, amounts, totalCell)]>>
  /\ nextSheetId = 2
  /\ files = {}
  /\ folders = InitFolders
  /\ nextFolderId = 3
  /\ pc = [p \in Procs |-> IF p = 1 THEN "read" ELSE "done"]
  /\ \E op \in {"getStatus", "getList"} :
       call = [p \in Procs |-> IF p = 1
                               THEN [op |-> op, yearMonth |-> InitMonth, entry |-> NoEntry]
                               ELSE [op |-> "none", yearMonth |-> Blank, entry |-> NoEntry]]
  /\ local = [p \in Procs |-> NoLocal]
  /\ sheetRet = [p \in Procs |-> IF p = 1
                                 THEN [sheetId |-> <<1>>, title |-> <<formatSheetName(InitMonth)>>]
                                 ELSE NoSheet]
  /\ rowNumber = [p \in Procs |-> 0]
  /\ result = [p \in Procs |-> NoResult]

NextAgg == \E p \in Procs : ReadEntries(p)

SpecAgg == InitAgg /\ [][NextAgg]_vars

\* ------------------------------------------------ parseAmount on any text
\* the characters an amount cell is made of in the model
AmountChars == {"0", "1", "2", YenSign, FullwidthYenSign, ",", "-", " ", "a"}

AmountStrings == UNION { [1..n -> AmountChars] : n \in 0..MaxAmountLen }

\* one parseAmount call on any text
InitParse ==
  /\ InitServices
  /\ sheets = <<BaseSheet>>
  /\ nextSheetId = 2
  /\ files = {}
  /\ folders = {}
  /\ nextFolderId = 1
  /\ pc = [p \in Procs |-> IF p = 1 THEN "parse" ELSE "done"]
  /\ \E value \in AmountStrings :
       call = [p \in Procs |-> IF p = 1
                               THEN [op |-> "parseAmount", value |-> value]
                               ELSE [op |-> "none", value |-> Blank]]
  /\ local = [p \in Procs |-> NoLocal]
  /\ sheetRet = [p \in Procs |-> NoSheet]
  /\ rowNumber = [p \in Procs |-> 0]
  /\ result = [p \in Procs |-> NoResult]

\* parseAmount(value) returns
ParseAmount(p) ==
  /\ pc[p] = "parse"
  /\ pc' = [pc EXCEPT ![p] = "done"]
  /\ result' = [result EXCEPT ![p] = Returned(parseAmount(call[p].value))]
  /\ UNCHANGED <<sheets, nextSheetId, folders, nextFolderId, files, call, local, sheetRet, rowNumber, serviceVars>>

NextParse == \E p \in Procs : ParseAmount(p)

SpecParse == InitParse /\ [][NextParse]_vars

\* ------------------------------------------------------------ Drive calls
\* The store is modelled without its trashed items: every query of the
\* service asks for trashed=false and the service trashes nothing.

MsgEnsureFailed == "ensureFolder failed"
MsgMonthFolderFailed == "getOrCreateMonthFolder failed"
MsgUploadFailed == "uploadFile failed"
MsgExportFailed == "exportExpenseReport failed"

\* new OperationError(message, userId, operation)
OperationError(message, operation) == Thrown("OperationError", operation, message)

\* the locals of a Drive call: the ensureFolder under way (stage, name,
\* parentId, setPermission, folderId), the folders resolved so far, the
\* files deleteFileByName listed and those it has still to delete
DriveLocal(stage, name, parentId, setPermission) ==
  [stage |-> stage, name |-> name, parentId |-> parentId, setPermission |-> setPermission,
   folderId |-> 0, monthFolderId |-> 0, listed |-> {}, toDelete |-> {}]

\* drive.files.create of a folder that adds nothing when the name is taken
FilesCreateFolderIfAbsent(fs, newId, name, parentId) ==
  IF FoldersNamed(fs, name, parentId) # {} THEN fs
  ELSE fs \cup {[id |-> newId, name |-> name, parent |-> parentId, readers |-> {}]}

\* drive.files.create of a folder: the store accepts names already in use
FilesCreateFolder(fs, newId, name, parentId) ==
  fs \cup {[id |-> newId, name |-> name, parent |-> parentId, readers |-> {}]}

\* drive.permissions.create({role: 'reader', emailAddress: userEmail})
PermissionsCreate(fs, folderId, userEmail) ==
  {IF f.id = folderId THEN [f EXCEPT !.readers = @ \cup {userEmail}] ELSE f : f \in fs}

\* the catch of the operation called: whatever failed inside, the caller
\* gets an OperationError of that operation
DriveThrow(p) ==
  /\ pc' = [pc EXCEPT ![p] = "done"]
  /\ result' = [result EXCEPT ![p] =
       CASE call[p].op = "ensureFolder" -> OperationError(MsgEnsureFailed, "ensureFolder")
         [] call[p].op = "getOrCreateMonthFolder" ->
              OperationError(MsgMonthFolderFailed, "getOrCreateMonthFolder")
         [] call[p].op = "exportExpenseReport" ->
              Thrown("ExportError", "exportExpenseReport", MsgExportFailed)
         [] OTHER -> OperationError(MsgUploadFailed, call[p].op)]

\* ensureFolder returns folderId; l holds the locals at the return
EnsureFolderReturn(p, l, folderId) ==
  CASE call[p].op = "ensureFolder" ->
         /\ pc' = [pc EXCEPT ![p] = "done"]
         /\ result' = [result EXCEPT ![p] = Returned(folderId)]
         /\ local' = [local EXCEPT ![p] = l]
    [] call[p].op # "ensureFolder" /\ l.stage = "user" ->
         /\ pc' = [pc EXCEPT ![p] = "ef_list"]
         /\ local' = [local EXCEPT ![p] = [l EXCEPT !.stage = "month",
                                                    !.name = call[p].yearMonth,
                                                    !.parentId = folderId,
                                                    !.setPermission = FALSE,
                                                    !.folderId = 0]]
         /\ UNCHANGED result
    [] call[p].op = "getOrCreateMonthFolder" /\ l.stage = "month" ->
         /\ pc' = [pc EXCEPT ![p] = "done"]
         /\ result' = [result EXCEPT ![p] = Returned(folderId)]
         /\ local' = [local EXCEPT ![p] = [l EXCEPT !.monthFolderId = folderId]]
    [] call[p].op = "exportExpenseReport" /\ l.stage = "month" ->
         /\ pc' = [pc EXCEPT ![p] = IF l.mergedPdf = Undefined THEN "ex_list" ELSE "ex_existing"]
         /\ local' = [local EXCEPT ![p] = [l EXCEPT !.monthFolderId = folderId]]
         /\ UNCHANGED result
    [] OTHER ->
         /\ pc' = [pc EXCEPT ![p] = "del_list"]
         /\ local' = [local EXCEPT ![p] = [l EXCEPT !.monthFolderId = folderId]]
         /\ UNCHANGED result

\* the folder names and parents ensureFolder is called with
FolderNames == {UserId, <<"U2">>}

\* ensureFolder(userId, name, parentId, setPermission) is called
CallEnsureFolder(p) ==
  /\ pc[p] = "idle"
  /\ \E name \in FolderNames, setPermission \in BOOLEAN :
       /\ call' = [call EXCEPT ![p] = [op |-> "ensureFolder", name |-> name,
                                       parentId |-> RootFolderId,
                                       setPermission |-> setPermission]]
       /\ local' = [local EXCEPT ![p] = DriveLocal("single", name, RootFolderId, setPermission)]
  /\ pc' = [pc EXCEPT ![p] = "ef_list"]
  /\ UNCHANGED <<sheets, nextSheetId, folders, nextFolderId, files, sheetRet, rowNumber, result, serviceVars>>

\* ensureFolder: drive.files.list of the folders of that name under the parent
ListFolders(p) ==
  /\ pc[p] = "ef_list"
  /\ \/ DriveThrow(p) /\ UNCHANGED local
     \/ LET found == FoldersNamed(folders, local[p].name, local[p].parentId)
        IN IF found # {}
           THEN \E f \in found : EnsureFolderReturn(p, local[p], f.id)
           ELSE /\ pc' = [pc EXCEPT ![p] = "ef_create"]
                /\ UNCHANGED <<local, result>>
  /\ UNCHANGED <<sheets, nextSheetId, folders, nextFolderId, files, call, sheetRet, rowNumber, serviceVars>>

\* ensureFolder: drive.files.create of the folder
CreateFolder(p) ==
  /\ pc[p] = "ef_create"
  /\ \/ DriveThrow(p) /\ UNCHANGED <<local, folders, nextFolderId>>
     \/ /\ folders' = FilesCreateFolder(folders, nextFolderId, local[p].name, local[p].parentId)
        /\ nextFolderId' = nextFolderId + 1
        /\ IF local[p].setPermission
           THEN /\ pc' = [pc EXCEPT ![p] = "ef_perm"]
                /\ local' = [local EXCEPT ![p].folderId = nextFolderId]
                /\ UNCHANGED result
           ELSE EnsureFolderReturn(p, [local[p] EXCEPT !.folderId = nextFolderId], nextFolderId)
  /\ UNCHANGED <<sheets, nextSheetId, files, call, sheetRet, rowNumber, serviceVars>>

\* ensureFolder: settingsService.getUserEmail and drive.permissions.create
SetPermission(p) ==
  /\ pc[p] = "ef_perm"
  /\ \/ DriveThrow(p) /\ UNCHANGED <<local, folders>>
     \/ /\ folders' = PermissionsCreate(folders, local[p].folderId, UserEmail)
        /\ EnsureFolderReturn(p, local[p], local[p].folderId)
  /\ UNCHANGED <<sheets, nextSheetId, nextFolderId, files, call, sheetRet, rowNumber, serviceVars>>

\* the folders under the root before the calls: none, or the user's folder
InitRootFolders ==
  { {}, {[id |-> 1, name |-> UserId, parent |-> RootFolderId, readers |-> {UserEmail}]} }

InitFolder ==
  /\ InitServices
  /\ sheets = <<BaseSheet>>
  /\ nextSheetId = 2
  /\ files = {}
  /\ folders \in InitRootFolders
  /\ nextFolderId = 2
  /\ InitCalls

StepFolder(p) ==
  \/ CallEnsureFolder(p)
  \/ ListFolders(p)
  \/ CreateFolder(p)
  \/ SetPermission(p)

\* ensureFolder calls whose steps interleave
NextFolder == \E p \in Procs : StepFolder(p)

SpecFolder == InitFolder /\ [][NextFolder]_vars

\* ensureFolder calls that do not overlap
NextFolderSeq == \E p \in Procs : (\A q \in Procs : q < p => pc[q] = "done") /\ StepFolder(p)

SpecFolderSeq == InitFolder /\ [][NextFolderSeq]_vars

\* -------------------------------------------------------------- uploadFile
\* the files of the store with the given name in the given folder
FilesNamed(fs, fileName, folderId) == {f \in fs : f.name = fileName /\ f.parent = folderId}

\* a delete that leaves the file in place
FilesDeleteNothing(fs, fileId) == fs

\* drive.files.delete({fileId})
FilesDelete(fs, fileId) == {f \in fs : f.id # fileId}

\* a create that puts the file under the root instead of the folder given
FilesCreateInRoot(fs, newId, fileName, folderId, content) ==
  fs \cup {[id |-> newId, name |-> fileName, parent |-> RootFolderId, content |-> content]}

\* drive.files.create of a file with the given content
FilesCreate(fs, newId, fileName, folderId, content) ==
  fs \cup {[id |-> newId, name |-> fileName, parent |-> folderId, content |-> content]}

\* a loop that goes on to the upload after its first deletion
AfterDeletionFirstOnly(remaining) == "up_create"

\* for (const file of response.data.files): the next file, or the upload
\* when none is left
AfterDeletion(remaining) == IF remaining = {} THEN "up_create" ELSE "del_file"

FileNames == {<<"receipt.pdf">>, <<"other.pdf">>}

FileContents == {1, 2}

\* uploadFile(userId, yearMonth, content, fileName, mimeType) is called:
\* it starts with getOrCreateMonthFolder, that is ensureFolder of the
\* user's folder
CallUploadFile(p) ==
  /\ pc[p] = "idle"
  /\ \E yearMonth \in Months, fileName \in FileNames, content \in FileContents :
       call' = [call EXCEPT ![p] = [op |-> "uploadFile", yearMonth |-> yearMonth,
                                    fileName |-> fileName, content |-> content]]
  /\ local' = [local EXCEPT ![p] = DriveLocal("user", UserId, RootFolderId, TRUE)]
  /\ pc' = [pc EXCEPT ![p] = "ef_list"]
  /\ UNCHANGED <<sheets, nextSheetId, folders, nextFolderId, files, sheetRet, rowNumber, result, serviceVars>>

\* deleteFileByName: drive.files.list of the files of that name in the folder
ListSameName(p) ==
  /\ pc[p] = "del_list"
  /\ \/ DriveThrow(p) /\ UNCHANGED local
     \/ LET found == {f.id : f \in FilesNamed(files, call[p].fileName, local[p].monthFolderId)}
        IN /\ local' = [local EXCEPT ![p].listed = found, ![p].toDelete = found]
           /\ pc' = [pc EXCEPT ![p] = AfterDeletion(found)]
           /\ UNCHANGED result
  /\ UNCHANGED <<sheets, nextSheetId, folders, nextFolderId, files, call, sheetRet, rowNumber, serviceVars>>

\* deleteFileByName: drive.files.delete of one listed file; the store
\* refuses a file that is gone
DeleteFile(p) ==
  /\ pc[p] = "del_file"
  /\ \E fileId \in local[p].toDelete :
       \/ DriveThrow(p) /\ UNCHANGED <<local, files>>
       \/ /\ \E f \in files : f.id = fileId
          /\ files' = FilesDelete(files, fileId)
          /\ local' = [local EXCEPT ![p].toDelete = @ \ {fileId}]
          /\ pc' = [pc EXCEPT ![p] = AfterDeletion(local[p].toDelete \ {fileId})]
          /\ UNCHANGED result
  /\ UNCHANGED <<sheets, nextSheetId, folders, nextFolderId, call, sheetRet, rowNumber, serviceVars>>

\* uploadFile: drive.files.create of the new file, then the return
CreateFile(p) ==
  /\ pc[p] = "up_create"
  /\ \/ DriveThrow(p) /\ UNCHANGED <<files, nextFolderId>>
     \/ /\ files' = FilesCreate(files, nextFolderId, call[p].fileName,
                                local[p].monthFolderId, call[p].content)
        /\ nextFolderId' = nextFolderId + 1
        /\ pc' = [pc EXCEPT ![p] = "done"]
        /\ result' = [result EXCEPT ![p] =
             Returned([id |-> nextFolderId, webViewLink |-> nextFolderId])]
  /\ UNCHANGED <<sheets, nextSheetId, folders, local, call, sheetRet, rowNumber, serviceVars>>

\* the first id the store gives in a model of uploads
FirstNewId == 5

\* files in the month folder before the calls: none, one receipt, or two
\* of the same name
InitFiles ==
  { {},
    {[id |-> 3, name |-> <<"receipt.pdf">>, parent |-> 2, content |-> 0]},
    {[id |-> 3, name |-> <<"receipt.pdf">>, parent |-> 2, content |-> 0],
     [id |-> 4, name |-> <<"receipt.pdf">>, parent |-> 2, content |-> 0]} }

InitUpload ==
  /\ InitServices
  /\ sheets = <<BaseSheet>>
  /\ nextSheetId = 2
  /\ \/ folders = {} /\ files = {}
     \/ folders = InitFolders /\ files \in InitFiles
  /\ nextFolderId = FirstNewId
  /\ InitCalls

StepUpload(p) ==
  \/ CallUploadFile(p)
  \/ ListFolders(p)
  \/ CreateFolder(p)
  \/ SetPermission(p)
  \/ ListSameName(p)
  \/ DeleteFile(p)
  \/ CreateFile(p)

\* uploadFile calls that do not overlap
NextUpload == \E p \in Procs : (\A q \in Procs : q < p => pc[q] = "done") /\ StepUpload(p)

SpecUpload == InitUpload /\ [][NextUpload]_vars

\* ---------------------------------------------------------------- mergePDFs
\* A PDF buffer is [ok, pages]: a buffer PDFDocument.load rejects has
\* ok = FALSE; pages are the labels of its pages.

MsgMergeFailed == "mergePDFs failed"

\* new Error(message)
PlainError(message) == Thrown("Error", "", message)

\* a merge that gives up all pages when one input does not load
RECURSIVE CopyPagesAllOrNothing(_)
CopyPagesAllOrNothing(pdfBuffers) ==
  IF pdfBuffers = <<>> THEN <<>>
  ELSE IF \E i \in 1..Len(pdfBuffers) : ~pdfBuffers[i].ok THEN <<>>
  ELSE Head(pdfBuffers).pages \o CopyPagesAllOrNothing(Tail(pdfBuffers))

\* for (const pdfBuffer of pdfBuffers) { try { load; copyPages; addPage }
\* catch { continue } }: the pageRefs collected
RECURSIVE CopyPages(_)
CopyPages(pdfBuffers) ==
  IF pdfBuffers = <<>> THEN <<>>
  ELSE (IF Head(pdfBuffers).ok THEN Head(pdfBuffers).pages ELSE <<>>)
       \o CopyPages(Tail(pdfBuffers))

\* pageRefs.forEach((page, index) => page.drawText(`${index + 1} / ${pageRefs.length}`))
DrawPageNumbers(pageRefs) ==
  [k \in 1..Len(pageRefs) |-> [page |-> pageRefs[k], footer |-> <<k, Len(pageRefs)>>]]

\* for (const {title, pageNumber} of bookmarks) if (pageNumber > 0 &&
\* pageNumber <= pageRefs.length) {...}: the outline items made, each with
\* the positions of its Prev and Next items (0 when not set)
RECURSIVE OutlineItems(_, _, _)
OutlineItems(bookmarks, numPages, items) ==
  IF bookmarks = <<>> THEN items
  ELSE LET b == Head(bookmarks)
           lastOutline == Len(items)
           outline == [Title |-> b.title, Dest |-> b.pageNumber, Prev |-> lastOutline, Next |-> 0]
           linked == IF lastOutline = 0 THEN items
                     ELSE [items EXCEPT ![lastOutline].Next = lastOutline + 1]
       IN IF b.pageNumber > 0 /\ b.pageNumber <= numPages
          THEN OutlineItems(Tail(bookmarks), numPages, Append(linked, outline))
          ELSE OutlineItems(Tail(bookmarks), numPages, items)

\* the Outlines dictionary of the catalog: undefined when no bookmark was
\* passed; First and Last are 0 when not set
Outlines(bookmarks, numPages) ==
  IF Len(bookmarks) > 0
  THEN LET items == OutlineItems(bookmarks, numPages, <<>>)
       IN <<[First |-> IF items = <<>> THEN 0 ELSE 1,
             Last |-> Len(items),
             Count |-> Len(bookmarks),
             items |-> items]>>
  ELSE Undefined

\* PDFService.mergePDFs(pdfBuffers, bookmarks)
mergePDFs(pdfBuffers, bookmarks) ==
  LET pageRefs == CopyPages(pdfBuffers)
  IN IF Len(pageRefs) = 0 THEN PlainError(MsgMergeFailed)
     ELSE Returned([pages |-> DrawPageNumbers(pageRefs),
                    outlines |-> Outlines(bookmarks, Len(pageRefs))])

\* the page counts of the inputs that load
PageCounts == {1, 2}

\* a buffer at position i of the inputs: one that does not load, or one
\* with n pages labelled <<i, 1>> .. <<i, n>>
PdfBuffersAt(i) ==
  {[ok |-> FALSE, pages |-> <<>>]}
    \cup {[ok |-> TRUE, pages |-> [j \in 1..n |-> <<i, j>>]] : n \in PageCounts}

PdfInputs ==
  UNION { {f \in [1..n -> UNION {PdfBuffersAt(i) : i \in 1..n}] :
             \A i \in 1..n : f[i] \in PdfBuffersAt(i)} : n \in 0..MaxPdfs }

BookmarkTitles == {<<"sheet">>, <<"receipt">>}

BookmarkPages == 0..3

BookmarkInputs ==
  UNION { [1..n -> [title : BookmarkTitles, pageNumber : BookmarkPages]] : n \in 0..MaxBookmarks }

\* one mergePDFs call on any inputs
InitMerge ==
  /\ InitServices
  /\ sheets = <<BaseSheet>>
  /\ nextSheetId = 2
  /\ files = {}
  /\ folders = {}
  /\ nextFolderId = 1
  /\ pc = [p \in Procs |-> IF p = 1 THEN "merge" ELSE "done"]
  /\ \E pdfBuffers \in PdfInputs, bookmarks \in BookmarkInputs :
       call = [p \in Procs |-> IF p = 1
                               THEN [op |-> "mergePDFs", pdfBuffers |-> pdfBuffers,
                                     bookmarks |-> bookmarks]
                               ELSE [op |-> "none", pdfBuffers |-> <<>>, bookmarks |-> <<>>]]
  /\ local = [p \in Procs |-> NoLocal]
  /\ sheetRet = [p \in Procs |-> NoSheet]
  /\ rowNumber = [p \in Procs |-> 0]
  /\ result = [p \in Procs |-> NoResult]

\* mergePDFs(pdfBuffers, bookmarks) returns or throws
MergePDFs(p) ==
  /\ pc[p] = "merge"
  /\ pc' = [pc EXCEPT ![p] = "done"]
  /\ result' = [result EXCEPT ![p] = mergePDFs(call[p].pdfBuffers, call[p].bookmarks)]
  /\ UNCHANGED <<sheets, nextSheetId, folders, nextFolderId, files, call, local, sheetRet, rowNumber, serviceVars>>

NextMerge == \E p \in Procs : MergePDFs(p)

SpecMerge == InitMerge /\ [][NextMerge]_vars

\* ------------------------------------------------------ exportExpenseReport
\* `経費精算書_${yearMonth}.pdf`
ExportFileName(yearMonth) == <<"report_">> \o yearMonth \o <<".pdf">>

PdfMimeType == "application/pdf"

\* the sheet PDF the export URL returns: one page, labelled <<0, 1>>
SheetPdf == [ok |-> TRUE, pages |-> <<<<0, 1>>>>]

\* the locals of an export call: those of the Drive calls it makes, the
\* sheet PDF, the receipts listed, their PDFs so far and the merged PDF
ExportLocal(sheetPdf) ==
  [stage |-> "user", name |-> UserId, parentId |-> RootFolderId, setPermission |-> TRUE,
   folderId |-> 0, monthFolderId |-> 0, listed |-> {}, toDelete |-> {},
   sheetPdf |-> sheetPdf, receipts |-> <<>>, receiptPdfs |-> <<>>, mergedPdf |-> Undefined]

\* the receipt names of the model, in the order of orderBy: 'name'
NameOrder == <<<<"a.pdf">>, <<"b.pdf">>, <<"c.pdf">>, <<"d.jpg">>>>

NameRank(name) ==
  IF \E k \in 1..Len(NameOrder) : NameOrder[k] = name
  THEN CHOOSE k \in 1..Len(NameOrder) : NameOrder[k] = name
  ELSE 0

\* the files of S as files.list returns them with orderBy: 'name'
RECURSIVE OrderByName(_)
OrderByName(S) ==
  IF S = {} THEN <<>>
  ELSE LET first == CHOOSE f \in S : \A g \in S :
                      \/ NameRank(f.name) < NameRank(g.name)
                      \/ NameRank(f.name) = NameRank(g.name) /\ f.id <= g.id
       IN <<first>> \o OrderByName(S \ {first})

\* a receipts query without the name condition
ReceiptsQueryAllFiles(fs, folderId, yearMonth) ==
  OrderByName({f \in fs : f.parent = folderId})

\* files.list: '<folderId>' in parents and name != '経費精算書_<yearMonth>.pdf'
ReceiptsQuery(fs, folderId, yearMonth) ==
  OrderByName({f \in fs : f.parent = folderId /\ f.name # ExportFileName(yearMonth)})

\* pdfService.convertImageToPDF: a one-page PDF of the image
ConvertImageToPDF(file) == [ok |-> TRUE, pages |-> <<<<file.id, 1>>>>]

\* getSheetId: the id, as a string, of the first sheet whose title is sheetName, if there is one
getSheetId(ss, sheetName) ==
  LET sheet == FindByTitle(SpreadsheetsGet(ss), {sheetName})
  IN IF sheet = Undefined THEN Undefined
     ELSE <<NumToStr(sheet[1].properties.sheetId)>>

\* exportExpenseReport(userId, yearMonth) is called
CallExport(p) ==
  /\ pc[p] = "idle"
  /\ \E yearMonth \in Months :
       call' = [call EXCEPT ![p] = [op |-> "exportExpenseReport", yearMonth |-> yearMonth]]
  /\ pc' = [pc EXCEPT ![p] = "ex_sheet"]
  /\ UNCHANGED <<sheets, nextSheetId, folders, nextFolderId, files, local, sheetRet, rowNumber, result, serviceVars>>

\* exportSheetToPDF: getSheetId of the sheet yearMonth.replace('-', '_'),
\* then the download of the export URL; getMonthlyReceipts starts with
\* getOrCreateMonthFolder
ExportSheet(p) ==
  /\ pc[p] = "ex_sheet"
  /\ \/ DriveThrow(p) /\ UNCHANGED local
     \/ /\ getSheetId(sheets, ReplaceFirst(call[p].yearMonth, "-", "_")) # Undefined
        /\ local' = [local EXCEPT ![p] = ExportLocal(SheetPdf)]
        /\ pc' = [pc EXCEPT ![p] = "ef_list"]
        /\ UNCHANGED result
  /\ UNCHANGED <<sheets, nextSheetId, folders, nextFolderId, files, call, sheetRet, rowNumber, serviceVars>>

\* getMonthlyReceipts: files.list of the month folder
ListReceipts(p) ==
  /\ pc[p] = "ex_list"
  /\ \/ DriveThrow(p) /\ UNCHANGED local
     \/ LET receipts == ReceiptsQuery(files, local[p].monthFolderId, call[p].yearMonth)
        IN /\ local' = [local EXCEPT ![p].receipts = receipts]
           /\ pc' = [pc EXCEPT ![p] = IF receipts = <<>> THEN "ex_merge" ELSE "ex_download"]
           /\ UNCHANGED result
  /\ UNCHANGED <<sheets, nextSheetId, folders, nextFolderId, files, call, sheetRet, rowNumber, serviceVars>>

\* for (const receipt of receipts): downloadReceipt and, for a file that
\* is not a PDF, convertImageToPDF
DownloadReceipt(p) ==
  /\ pc[p] = "ex_download"
  /\ \/ DriveThrow(p) /\ UNCHANGED local
     \/ LET receipt == local[p].receipts[Len(local[p].receiptPdfs) + 1]
            pdfBuffer == IF receipt.mimeType = PdfMimeType THEN receipt.content
                         ELSE ConvertImageToPDF(receipt)
            receiptPdfs == Append(local[p].receiptPdfs, pdfBuffer)
        IN /\ \E f \in files : f.id = receipt.id
           /\ local' = [local EXCEPT ![p].receiptPdfs = receiptPdfs]
           /\ pc' = [pc EXCEPT ![p] = IF Len(receiptPdfs) = Len(local[p].receipts)
                                      THEN "ex_merge" ELSE "ex_download"]
           /\ UNCHANGED result
  /\ UNCHANGED <<sheets, nextSheetId, folders, nextFolderId, files, call, sheetRet, rowNumber, serviceVars>>

\* pdfService.mergePDFs([sheetPdf, ...receiptPdfs]); the second
\* getOrCreateMonthFolder follows
MergeReport(p) ==
  /\ pc[p] = "ex_merge"
  /\ LET merged == mergePDFs(<<local[p].sheetPdf>> \o local[p].receiptPdfs, <<>>)
     IN IF merged.kind = "throw"
        THEN DriveThrow(p) /\ UNCHANGED local
        ELSE /\ local' = [local EXCEPT ![p] = [@ EXCEPT !.stage = "user",
                                                        !.name = UserId,
                                                        !.parentId = RootFolderId,
                                                        !.setPermission = TRUE,
                                                        !.folderId = 0,
                                                        !.monthFolderId = 0,
                                                        !.mergedPdf = <<merged.value>>]]
             /\ pc' = [pc EXCEPT ![p] = "ef_list"]
             /\ UNCHANGED result
  /\ UNCHANGED <<sheets, nextSheetId, folders, nextFolderId, files, call, sheetRet, rowNumber, serviceVars>>

\* files.list of the files named like the report in the month folder
ListExisting(p) ==
  /\ pc[p] = "ex_existing"
  /\ \/ DriveThrow(p) /\ UNCHANGED local
     \/ LET found == {f.id : f \in FilesNamed(files, ExportFileName(call[p].yearMonth),
                                              local[p].monthFolderId)}
        IN /\ local' = [local EXCEPT ![p].listed = found, ![p].toDelete = found]
           /\ pc' = [pc EXCEPT ![p] = IF found = {} THEN "ex_create" ELSE "ex_delete"]
           /\ UNCHANGED result
  /\ UNCHANGED <<sheets, nextSheetId, folders, nextFolderId, files, call, sheetRet, rowNumber, serviceVars>>

\* for (const file of existingFiles.data.files): files.delete
DeleteExisting(p) ==
  /\ pc[p] = "ex_delete"
  /\ \E fileId \in local[p].toDelete :
       \/ DriveThrow(p) /\ UNCHANGED <<local, files>>
       \/ /\ \E f \in files : f.id = fileId
          /\ files' = FilesDelete(files, fileId)
          /\ local' = [local EXCEPT ![p].toDelete = @ \ {fileId}]
          /\ pc' = [pc EXCEPT ![p] = IF local[p].toDelete = {fileId}
                                     THEN "ex_create" ELSE "ex_delete"]
          /\ UNCHANGED result
  /\ UNCHANGED <<sheets, nextSheetId, folders, nextFolderId, call, sheetRet, rowNumber, serviceVars>>

\* files.create of the merged PDF, then return {pdfBuffer, fileUrl}
CreateReport(p) ==
  /\ pc[p] = "ex_create"
  /\ \/ DriveThrow(p) /\ UNCHANGED <<files, nextFolderId>>
     \/ LET mergedPdf == local[p].mergedPdf[1]
        IN /\ files' = files \cup
                 {[id |-> nextFolderId, name |-> ExportFileName(call[p].yearMonth),
                   parent |-> local[p].monthFolderId, mimeType |-> PdfMimeType,
                   content |-> [ok |-> TRUE, pages |-> mergedPdf.pages]]}
           /\ nextFolderId' = nextFolderId + 1
           /\ pc' = [pc EXCEPT ![p] = "done"]
           /\ result' = [result EXCEPT ![p] =
                Returned([pdfBuffer |-> mergedPdf, fileUrl |-> nextFolderId])]
  /\ UNCHANGED <<sheets, nextSheetId, folders, local, call, sheetRet, rowNumber, serviceVars>>

\* the receipts that can lie in the month folder before the calls: two
\* PDFs, a PDF that does not load, an image
ReceiptFiles ==
  { [id |-> 3, name |-> <<"a.pdf">>, parent |-> 2, mimeType |-> PdfMimeType,
     content |-> [ok |-> TRUE, pages |-> <<<<3, 1>>>>]],
    [id |-> 4, name |-> <<"b.pdf">>, parent |-> 2, mimeType |-> PdfMimeType,
     content |-> [ok |-> TRUE, pages |-> <<<<4, 1>>, <<4, 2>>>>]],
    [id |-> 5, name |-> <<"c.pdf">>, parent |-> 2, mimeType |-> PdfMimeType,
     content |-> [ok |-> FALSE, pages |-> <<>>]],
    [id |-> 6, name |-> <<"d.jpg">>, parent |-> 2, mimeType |-> "image/jpeg",
     content |-> [ok |-> FALSE, pages |-> <<>>]] }

\* a report exported before the calls
EarlierReport ==
  [id |-> 7, name |-> ExportFileName(InitMonth), parent |-> 2, mimeType |-> PdfMimeType,
   content |-> [ok |-> TRUE, pages |-> <<[page |-> <<0, 1>>, footer |-> <<1, 1>>]>>]]

InitExport ==
  /\ InitServices
  /\ \E title \in {formatSheetName(InitMonth), InitMonth} :
       sheets = <<BaseSheet, CreatedSheet(title, InitMonth, 1, 2)>>
  /\ nextSheetId = 2
  /\ \/ folders = {} /\ files = {}
     \/ /\ folders = InitFolders
        /\ \E receipts \in SUBSET ReceiptFiles, reports \in SUBSET {EarlierReport} :
             files = receipts \cup reports
  /\ nextFolderId = 8
  /\ InitCalls

StepExport(p) ==
  \/ CallExport(p)
  \/ ExportSheet(p)
  \/ ListFolders(p)
  \/ CreateFolder(p)
  \/ SetPermission(p)
  \/ ListReceipts(p)
  \/ DownloadReceipt(p)
  \/ MergeReport(p)
  \/ ListExisting(p)
  \/ DeleteExisting(p)
  \/ CreateReport(p)

\* exportExpenseReport calls that do not overlap
NextExport == \E p \in Procs : (\A q \in Procs : q < p => pc[q] = "done") /\ StepExport(p)

SpecExport == InitExport /\ [][NextExport]_vars

\* ------------------------------------------------------ settings lookup
\* a row of user_settings: columns A..E
SettingsRow(userId, spreadsheetId, email, createdAt, updatedAt) ==
  <<userId, spreadsheetId, email, createdAt, updatedAt>>

\* rows.findIndex(row => row[0] === userId): -1 when no row matches
FindUserRow(rows, userId) ==
  IF \E i \in 1..Len(rows) : rows[i][1] = userId
  THEN (CHOOSE i \in 1..Len(rows) :
          rows[i][1] = userId /\ \A j \in 1..(i - 1) : rows[j][1] # userId) - 1
  ELSE -1

\* getUserSettings: the first row of the user, or null
getUserSettings(rows, userId) ==
  IF FindUserRow(rows, userId) = -1 THEN Undefined
  ELSE <<rows[FindUserRow(rows, userId) + 1]>>

\* ------------------------------------------------------ /keihi export
MsgNotConfigured == "spreadsheet is not configured"
MsgExportStarted == "PDF export started"
MsgExportError == "error during PDF export"
MsgReportAttached == "report exported to PDF"

\* chat.postMessage / files.upload as Slack keeps them: ts is the position
\* in the channel history, thread_ts 0 for a message outside any thread
SlackPost(kind, threadTs, text) == [kind |-> kind, thread_ts |-> threadTs, text |-> text]

\* the posts in the thread of the message ts
ThreadOf(ts) == {i \in 1..Len(slack) : slack[i].thread_ts = ts}

\* a promise chain .then(f, g): the rejection handler does not see what f throws
AfterUploadFailedTwoArgThen == "kx_end"

\* .then(f).catch(g): g runs when the export or f rejected
AfterUploadFailed == "kx_catch"

\* case 'export' up to the export call: getUserSettings, the started
\* message, then exportExpenseReport is called and the handler returns; a
\* failure before the call is reported by the handler's catch
KeihiExport(p) ==
  /\ pc[p] = "idle"
  /\ \E yearMonth \in Months :
       \/ /\ getUserSettings(settings, UserId) # Undefined
          /\ slack' = Append(slack, SlackPost("message", 0, MsgExportStarted))
          /\ call' = [call EXCEPT ![p] = [op |-> "exportExpenseReport", yearMonth |-> yearMonth,
                                          thread_ts |-> Len(slack) + 1]]
          /\ pc' = [pc EXCEPT ![p] = "ex_sheet"]
       \/ /\ slack' = Append(slack, SlackPost("message", 0, MsgNotConfigured))
          /\ call' = [call EXCEPT ![p] = [op |-> "keihi", yearMonth |-> yearMonth, thread_ts |-> 0]]
          /\ pc' = [pc EXCEPT ![p] = "kx_end"]
  /\ UNCHANGED <<sheets, nextSheetId, folders, nextFolderId, files, local, sheetRet, rowNumber, result,
                 settings, sessions, timers, now>>

\* .then: files.upload of the PDF into the thread of the started message
UploadReport(p) ==
  /\ pc[p] = "done"
  /\ call[p].op = "exportExpenseReport"
  /\ result[p].kind = "return"
  /\ \/ /\ slack' = Append(slack, SlackPost("file", call[p].thread_ts, MsgReportAttached))
        /\ pc' = [pc EXCEPT ![p] = "kx_end"]
     \/ /\ pc' = [pc EXCEPT ![p] = AfterUploadFailed]
        /\ UNCHANGED slack
  /\ UNCHANGED <<sheets, nextSheetId, folders, nextFolderId, files, call, local, sheetRet, rowNumber, result,
                 settings, sessions, timers, now>>

\* .catch: chat.postMessage of the error into the thread
PostExportError(p) ==
  /\ \/ pc[p] = "done" /\ call[p].op = "exportExpenseReport" /\ result[p].kind = "throw"
     \/ pc[p] = "kx_catch"
  /\ slack' = Append(slack, SlackPost("message", call[p].thread_ts, MsgExportError))
  /\ pc' = [pc EXCEPT ![p] = "kx_end"]
  /\ UNCHANGED <<sheets, nextSheetId, folders, nextFolderId, files, call, local, sheetRet, rowNumber, result,
                 settings, sessions, timers, now>>

ConfiguredRow == SettingsRow(UserId, <<"sheet-id">>, UserEmail, <<"t0">>, <<"t0">>)

InitKeihi ==
  /\ slack = <<>>
  /\ settings \in {<<>>, <<ConfiguredRow>>}
  /\ sessions = {}
  /\ timers = {}
  /\ now = 0
  /\ sheets = <<BaseSheet, CreatedSheet(formatSheetName(InitMonth), InitMonth, 1, 2)>>
  /\ nextSheetId = 2
  /\ folders = InitFolders
  /\ files \in {{}, {r \in ReceiptFiles : r.id = 3} \cup {EarlierReport}}
  /\ nextFolderId = 8
  /\ InitCalls

StepKeihi(p) ==
  \/ KeihiExport(p)
  \/ ExportSheet(p)
  \/ ListFolders(p)
  \/ CreateFolder(p)
  \/ SetPermission(p)
  \/ ListReceipts(p)
  \/ DownloadReceipt(p)
  \/ MergeReport(p)
  \/ ListExisting(p)
  \/ DeleteExisting(p)
  \/ CreateReport(p)
  \/ UploadReport(p)
  \/ PostExportError(p)

\* commands arrive at any time and are numbered as they arrive; the exports
\* they start run side by side
NextKeihi ==
  \E p \in Procs : (\A q \in Procs : q < p => pc[q] # "idle") /\ StepKeihi(p)

SpecKeihi == InitKeihi /\ [][NextKeihi]_vars

\* every call and every callback that is pending is run in the end
SpecKeihiFair == SpecKeihi /\ \A p \in Procs : WF_vars(pc[p] # "idle" /\ StepKeihi(p))

\* ------------------------------------------------------ saveUserSettings
Repeat(c, n) == [i \in 1..n |-> c]

MinSpreadsheetIdLength == 20

\* [a-zA-Z0-9-_]
IdChars ==
  {"a", "b", "c", "d", "e", "f", "g", "h", "i", "j", "k", "l", "m",
   "n", "o", "p", "q", "r", "s", "t", "u", "v", "w", "x", "y", "z",
   "A", "B", "C", "D", "E", "F", "G", "H", "I", "J", "K", "L", "M",
   "N", "O", "P", "Q", "R", "S", "T", "U", "V", "W", "X", "Y", "Z",
   "0", "1", "2", "3", "4", "5", "6", "7", "8", "9", "-", "_"}

\* /^[a-zA-Z0-9-_]{20,}$/.test(spreadsheetId), on a string of characters
isValidSpreadsheetId(spreadsheetId) ==
  /\ Len(spreadsheetId) >= MinSpreadsheetIdLength
  /\ \A i \in 1..Len(spreadsheetId) : spreadsheetId[i] \in IdChars

\* /^[^@]+@[^@]+\.[^@]+$/.test(email), on a string of characters
isValidEmail(email) ==
  \E i \in 1..Len(email) :
    /\ email[i] = "@"
    /\ \A k \in 1..Len(email) : email[k] = "@" => k = i
    /\ i > 1
    /\ \E j \in (i + 2)..(Len(email) - 1) : email[j] = "."

\* new Date().toISOString() at the time t
ToISOString(t) == <<"T">> \o NumToStr(t)

MsgSaveFailed == "saving the settings failed"

SettingsError(message) == Thrown("SettingsError", "", message)

\* the cell a value of the request becomes: a missing value leaves it empty
CellOf(o) == IF o = Undefined THEN Blank ELSE o[1]

\* values.append: the row goes below the last row
AppendSettings(rows, row) == Append(rows, row)

\* an update that appends the row instead of overwriting
UpdateSettingsAppend(rows, rowIndex, row) == Append(rows, row)

\* values.update of A<rowIndex + 2>:E<rowIndex + 2>
UpdateSettings(rows, rowIndex, row) ==
  IF rowIndex + 1 \in 1..Len(rows) THEN [rows EXCEPT ![rowIndex + 1] = row]
  ELSE rows \o [i \in 1..(rowIndex - Len(rows)) |-> SettingsRow(Blank, Blank, Blank, Blank, Blank)]
            \o <<row>>

\* saveUserSettings has returned or thrown: its caller goes on
SaveReturn(p, res) ==
  /\ pc' = [pc EXCEPT ![p] = IF call[p].op = "setup" THEN "ks_reply" ELSE "done"]
  /\ result' = [result EXCEPT ![p] = res]

SettingsUsers == {UserId, <<"U2">>}

IdA == Repeat("a", MinSpreadsheetIdLength)
IdB == Repeat("a", MinSpreadsheetIdLength - 1) \o <<"_">>

EmailA == <<"u", "@", "x", ".", "y">>
EmailB == <<"v", "@", "x", ".", "y">>

\* saveUserSettings(userId, {spreadsheet_id, email}) is called
CallSaveUserSettings(p) ==
  /\ pc[p] = "idle"
  /\ \E userId \in SettingsUsers, spreadsheetId \in {IdA, IdB},
        email \in {<<EmailA>>, <<EmailB>>, Undefined} :
       call' = [call EXCEPT ![p] =
                  [op |-> "saveUserSettings", userId |-> userId,
                   settings |-> [spreadsheet_id |-> spreadsheetId, email |-> email]]]
  /\ pc' = [pc EXCEPT ![p] = "ss_get"]
  /\ now' = now + 1
  /\ UNCHANGED <<sheets, nextSheetId, folders, nextFolderId, files, local, sheetRet, rowNumber, result,
                 slack, settings, sessions, timers>>

\* values.get of A2:E, findIndex of the user's row, new Date()
ReadSettingsRows(p) ==
  /\ pc[p] = "ss_get"
  /\ \/ SaveReturn(p, SettingsError(MsgSaveFailed)) /\ UNCHANGED local
     \/ /\ local' = [local EXCEPT ![p] = [rows |-> settings,
                                          rowIndex |-> FindUserRow(settings, call[p].userId),
                                          now |-> ToISOString(now)]]
        /\ pc' = [pc EXCEPT ![p] = "ss_write"]
        /\ UNCHANGED result
  /\ UNCHANGED <<sheets, nextSheetId, folders, nextFolderId, files, call, sheetRet, rowNumber,
                 slack, settings, sessions, timers, now>>

\* values.append of a new row, or values.update of the user's row with its
\* created_at (now when that cell is empty)
WriteSettingsRow(p) ==
  /\ pc[p] = "ss_write"
  /\ \/ SaveReturn(p, SettingsError(MsgSaveFailed)) /\ UNCHANGED settings
     \/ LET l == local[p]
            created == IF l.rowIndex # -1 /\ ~Falsy(l.rows[l.rowIndex + 1][4])
                       THEN l.rows[l.rowIndex + 1][4] ELSE l.now
            row == SettingsRow(call[p].userId, call[p].settings.spreadsheet_id,
                               CellOf(call[p].settings.email), created, l.now)
        IN /\ settings' = IF l.rowIndex = -1 THEN AppendSettings(settings, row)
                          ELSE UpdateSettings(settings, l.rowIndex, row)
           /\ SaveReturn(p, Returned(<<>>))
  /\ UNCHANGED <<sheets, nextSheetId, folders, nextFolderId, files, call, local, sheetRet, rowNumber,
                 slack, sessions, timers, now>>

StoredRowU1 == SettingsRow(UserId, IdB, EmailB, ToISOString(0), ToISOString(0))
StoredRowU2 == SettingsRow(<<"U2">>, IdA, EmailA, ToISOString(0), ToISOString(0))

InitSettings ==
  /\ slack = <<>>
  /\ settings \in {<<>>, <<StoredRowU2>>, <<StoredRowU2, StoredRowU1>>}
  /\ sessions = {}
  /\ timers = {}
  /\ now = 0
  /\ sheets = <<BaseSheet>>
  /\ nextSheetId = 1
  /\ folders = {}
  /\ files = {}
  /\ nextFolderId = 1
  /\ InitCalls

StepSettings(p) ==
  \/ CallSaveUserSettings(p)
  \/ ReadSettingsRows(p)
  \/ WriteSettingsRow(p)

\* saveUserSettings calls that do not overlap
NextSettings == \E p \in Procs : (\A q \in Procs : q < p => pc[q] = "done") /\ StepSettings(p)

SpecSettings == InitSettings /\ [][NextSettings]_vars

\* ------------------------------------------------------ /keihi setup
MsgNoSpreadsheetId == "give a spreadsheet id"
MsgInvalidSpreadsheetId == "invalid spreadsheet id"
MsgSetupDone == "spreadsheet setup completed"
MsgSlackApiFailed == "slack api call failed"

\* the catch of a handler: chat.postMessage of the error, outside any thread
PostError(message) == Append(slack, SlackPost("message", 0, message))

\* a setup that saves whatever id it is given
SetupCheckNothing(arg) == Undefined

\* the checks of case 'setup' on args[0]: the message of the error thrown,
\* undefined when the id passes
SetupCheck(arg) ==
  IF FalsyOpt(arg) THEN <<MsgNoSpreadsheetId>>
  ELSE IF ~isValidSpreadsheetId(arg[1]) THEN <<MsgInvalidSpreadsheetId>>
  ELSE Undefined

\* args[0] of /keihi setup: absent, an id of 19 characters, an id of 20
\* with a character outside the class, ids of 20 that pass
SetupArgs ==
  {Undefined, <<Repeat("a", MinSpreadsheetIdLength - 1)>>,
   <<Repeat("a", MinSpreadsheetIdLength - 1) \o <<"/">>>>, <<IdA>>, <<IdB>>}

\* the email of the Slack profile: well-formed, malformed, or absent
ProfileEmails == {<<EmailA>>, <<<<"u", "@", "x">>>>, Undefined}

\* case 'setup' up to the first await
KeihiSetup(p) ==
  /\ pc[p] = "idle"
  /\ \E arg \in SetupArgs :
       /\ call' = [call EXCEPT ![p] =
                     [op |-> "setup", userId |-> UserId, arg |-> arg,
                      settings |-> [spreadsheet_id |-> CellOf(arg), email |-> Undefined]]]
       /\ IF SetupCheck(arg) # Undefined
          THEN /\ slack' = PostError(SetupCheck(arg)[1])
               /\ pc' = [pc EXCEPT ![p] = "end"]
          ELSE /\ pc' = [pc EXCEPT ![p] = "ks_userinfo"]
               /\ UNCHANGED slack
  /\ now' = now + 1
  /\ UNCHANGED <<sheets, nextSheetId, folders, nextFolderId, files, local, sheetRet, rowNumber, result,
                 settings, sessions, timers>>

\* client.users.info and userInfo.user.profile.email; saveUserSettings is
\* called with it
UsersInfo(p) ==
  /\ pc[p] = "ks_userinfo"
  /\ \/ /\ slack' = PostError(MsgSlackApiFailed)
        /\ pc' = [pc EXCEPT ![p] = "end"]
        /\ UNCHANGED call
     \/ /\ \E email \in ProfileEmails :
             call' = [call EXCEPT ![p].settings.email = email]
        /\ pc' = [pc EXCEPT ![p] = "ss_get"]
        /\ UNCHANGED slack
  /\ UNCHANGED <<sheets, nextSheetId, folders, nextFolderId, files, local, sheetRet, rowNumber, result,
                 settings, sessions, timers, now>>

\* after saveUserSettings: the completion message, or the error from the catch
SetupReply(p) ==
  /\ pc[p] = "ks_reply"
  /\ slack' = IF result[p].kind = "throw" THEN PostError(result[p].message)
              ELSE Append(slack, SlackPost("message", 0, MsgSetupDone))
  /\ pc' = [pc EXCEPT ![p] = "end"]
  /\ UNCHANGED <<sheets, nextSheetId, folders, nextFolderId, files, call, local, sheetRet, rowNumber, result,
                 settings, sessions, timers, now>>

\* ------------------------------------------------------ receipt flows
MsgNoAmount == "enter the amount"
MsgCreateStarted == "creating the expense entry"
MsgCreated == "expense entry created"
MsgDownloadFailed == "file download failed"
MsgOcrFailed == "ocr failed"

\* amount_input.value: null, or the text typed
AmountValues == {Undefined, <<<<"0">>>>, <<<<"a">>>>, <<<<"1", "5">>>>}

\* value ? parseInt(value, 10) : null
ModalAmount(value) == IF FalsyOpt(value) THEN Undefined ELSE ParseInt(value[1])

\* !amount: null, NaN and 0
NoAmount(amount) == amount = Undefined \/ amount[1] = 0

\* the entry a modal hands to addEntry
ModalEntry(amount, details) ==
  [date |-> <<"2025", "-", "02", "-", "10">>, amount |-> amount,
   details |-> IF Falsy(details) THEN DefaultDetails ELSE details,
   memo |-> Blank, fileUrl |-> Blank]

\* driveFile.webViewLink as a string
LinkOf(webViewLink) == <<"https://drive/file/">> \o NumToStr(webViewLink)

\* expense_modal is submitted: without an amount the catch posts the
\* error; otherwise the started message is posted and the work goes on
\* behind the handler
SubmitExpenseModal(p) ==
  /\ pc[p] = "idle"
  /\ \E value \in AmountValues, fileName \in {<<"receipt.pdf">>}, content \in {2} :
       LET amount == ModalAmount(value)
       IN IF NoAmount(amount)
          THEN /\ slack' = PostError(MsgNoAmount)
               /\ call' = [call EXCEPT ![p] = [op |-> "none", flow |-> "expense_modal",
                                               value |-> value]]
               /\ pc' = [pc EXCEPT ![p] = "end"]
          ELSE /\ slack' = Append(slack, SlackPost("message", 0, MsgCreateStarted))
               /\ call' = [call EXCEPT ![p] =
                             [op |-> "uploadFile", flow |-> "expense_modal", value |-> value,
                              yearMonth |-> Substring07(ModalEntry(amount[1], Blank).date),
                              fileName |-> fileName, content |-> content,
                              entry |-> ModalEntry(amount[1], Blank),
                              thread_ts |-> Len(slack) + 1, uploaded |-> 0]]
               /\ pc' = [pc EXCEPT ![p] = "rx_download"]
  /\ UNCHANGED <<sheets, nextSheetId, folders, nextFolderId, files, local, sheetRet, rowNumber, result,
                 settings, sessions, timers, now>>

\* expense_direct_modal is submitted: without an amount the catch posts
\* the error; otherwise addEntry is called without a receipt
SubmitDirectModal(p) ==
  /\ pc[p] = "idle"
  /\ \E value \in AmountValues :
       LET amount == ModalAmount(value)
       IN IF NoAmount(amount)
          THEN /\ slack' = PostError(MsgNoAmount)
               /\ call' = [call EXCEPT ![p] = [op |-> "none", flow |-> "expense_direct_modal",
                                               value |-> value]]
               /\ pc' = [pc EXCEPT ![p] = "end"]
          ELSE /\ call' = [call EXCEPT ![p] =
                             [op |-> "addEntry", flow |-> "expense_direct_modal", value |-> value,
                              yearMonth |-> Substring07(ModalEntry(amount[1], Blank).date),
                              entry |-> ModalEntry(amount[1], Blank),
                              thread_ts |-> 0, uploaded |-> 0]]
               /\ pc' = [pc EXCEPT ![p] = "gocs_get"]
               /\ UNCHANGED slack
  /\ UNCHANGED <<sheets, nextSheetId, folders, nextFolderId, files, local, sheetRet, rowNumber, result,
                 settings, sessions, timers, now>>

\* POST /: the request has passed validateExpenseData; amount and details
\* are given or left to the OCR
PostExpense(p) ==
  /\ pc[p] = "idle"
  /\ \E given \in BOOLEAN, fileName \in {<<"receipt.pdf">>}, content \in {2} :
       call' = [call EXCEPT ![p] =
                  [op |-> "uploadFile", flow |-> "route", value |-> Undefined,
                   yearMonth |-> Substring07(ModalEntry(15, Blank).date),
                   fileName |-> fileName, content |-> content,
                   entry |-> ModalEntry(IF given THEN 15 ELSE 0, IF given THEN <<"taxi">> ELSE Blank),
                   thread_ts |-> 0, uploaded |-> 0]]
  /\ pc' = [pc EXCEPT ![p] = "rx_download"]
  /\ UNCHANGED <<sheets, nextSheetId, folders, nextFolderId, files, local, sheetRet, rowNumber, result,
                 slack, settings, sessions, timers, now>>

\* what a receipt flow does with an error: the modal posts it into the
\* thread of the started message, the route answers 500
FlowFails(p, message) ==
  /\ slack' = IF call[p].flow = "route" THEN slack
              ELSE Append(slack, SlackPost("message", call[p].thread_ts, message))
  /\ pc' = [pc EXCEPT ![p] = "end"]

\* the file is fetched from Slack (axios.get, files.info), then
\* driveService.uploadFile is called
FetchSlackFile(p) ==
  /\ pc[p] = "rx_download"
  /\ \/ FlowFails(p, MsgDownloadFailed) /\ UNCHANGED local
     \/ /\ local' = [local EXCEPT ![p] = DriveLocal("user", UserId, RootFolderId, TRUE)]
        /\ pc' = [pc EXCEPT ![p] = "ef_list"]
        /\ UNCHANGED slack
  /\ UNCHANGED <<sheets, nextSheetId, folders, nextFolderId, files, call, sheetRet, rowNumber, result,
                 settings, sessions, timers, now>>

\* uploadFile has returned or thrown: on an error the flow fails; otherwise
\* the route runs the OCR when amount or details are missing, and addEntry
\* is called with fileUrl: driveFile.webViewLink
AfterUpload(p) ==
  /\ pc[p] = "done"
  /\ call[p].op = "uploadFile"
  /\ "flow" \in DOMAIN call[p]
  /\ IF result[p].kind = "throw"
     THEN FlowFails(p, result[p].message) /\ UNCHANGED <<call, local>>
     ELSE \/ /\ call[p].flow = "route"
             /\ call[p].entry.amount = 0
             /\ FlowFails(p, MsgOcrFailed)
             /\ call' = [call EXCEPT ![p].uploaded = result[p].value.id]
             /\ UNCHANGED local
          \/ /\ call' = [call EXCEPT ![p].op = "addEntry",
                                     ![p].uploaded = result[p].value.id,
                                     ![p].entry.amount = IF @ = 0 THEN 15 ELSE @,
                                     ![p].entry.fileUrl = LinkOf(result[p].value.webViewLink)]
             /\ local' = [local EXCEPT ![p] = NoLocal]
             /\ pc' = [pc EXCEPT ![p] = "gocs_get"]
             /\ UNCHANGED slack
  /\ UNCHANGED <<sheets, nextSheetId, folders, nextFolderId, files, sheetRet, rowNumber, result,
                 settings, sessions, timers, now>>

\* addEntry has returned or thrown: the modal posts the completion message
\* or the error, the route answers
AfterAddEntry(p) ==
  /\ pc[p] = "done"
  /\ call[p].op = "addEntry"
  /\ "flow" \in DOMAIN call[p]
  /\ IF result[p].kind = "throw"
     THEN FlowFails(p, result[p].message)
     ELSE /\ slack' = IF call[p].flow = "route" THEN slack
                      ELSE Append(slack, SlackPost("message", call[p].thread_ts, MsgCreated))
          /\ pc' = [pc EXCEPT ![p] = "end"]
  /\ UNCHANGED <<sheets, nextSheetId, folders, nextFolderId, files, call, local, sheetRet, rowNumber, result,
                 settings, sessions, timers, now>>

InitSlack ==
  /\ slack = <<>>
  /\ settings \in {<<>>, <<StoredRowU1>>}
  /\ sessions = {}
  /\ timers = {}
  /\ now = 0
  /\ \/ sheets = <<>>
     \/ \E n \in {0, WindowRows} :
          sheets = <<BaseSheet>> \o
                   WithEntries(<<CreatedSheet(formatSheetName(InitMonth), InitMonth, 1, 2)>>,
                               formatSheetName(InitMonth), n)
  /\ nextSheetId = 2
  /\ folders = InitFolders
  /\ files = {}
  /\ nextFolderId = FirstNewId
  /\ InitCalls

StepSlack(p) ==
  \/ KeihiSetup(p)
  \/ UsersInfo(p)
  \/ ReadSettingsRows(p)
  \/ WriteSettingsRow(p)
  \/ SetupReply(p)
  \/ SubmitExpenseModal(p)
  \/ SubmitDirectModal(p)
  \/ PostExpense(p)
  \/ FetchSlackFile(p)
  \/ ListFolders(p)
  \/ CreateFolder(p)
  \/ SetPermission(p)
  \/ ListSameName(p)
  \/ DeleteFile(p)
  \/ CreateFile(p)
  \/ AfterUpload(p)
  \/ GetSheetList(p)
  \/ DuplicateBase(p)
  \/ MonthFolder(p)
  \/ WriteFirstDay(p)
  \/ FindEmptyRow(p)
  \/ UpdateRow(p)
  \/ UpdateLink(p)
  \/ AfterAddEntry(p)

\* one submission or command after the other
NextSlack == \E p \in Procs : (\A q \in Procs : q < p => pc[q] = "end") /\ StepSlack(p)

SpecSlack == InitSlack /\ [][NextSlack]_vars

StepSetup(p) ==
  \/ KeihiSetup(p)
  \/ UsersInfo(p)
  \/ ReadSettingsRows(p)
  \/ WriteSettingsRow(p)
  \/ SetupReply(p)

\* /keihi setup commands, one after the other
NextSetup == \E p \in Procs : (\A q \in Procs : q < p => pc[q] = "end") /\ StepSetup(p)

SpecSetup == InitSlack /\ [][NextSetup]_vars

StepReceipt(p) ==
  \/ SubmitExpenseModal(p)
  \/ PostExpense(p)
  \/ FetchSlackFile(p)
  \/ ListFolders(p)
  \/ CreateFolder(p)
  \/ SetPermission(p)
  \/ ListSameName(p)
  \/ DeleteFile(p)
  \/ CreateFile(p)
  \/ AfterUpload(p)
  \/ GetSheetList(p)
  \/ DuplicateBase(p)
  \/ MonthFolder(p)
  \/ WriteFirstDay(p)
  \/ FindEmptyRow(p)
  \/ UpdateRow(p)
  \/ UpdateLink(p)
  \/ AfterAddEntry(p)

\* receipts submitted one after the other
NextReceipt == \E p \in Procs : (\A q \in Procs : q < p => pc[q] = "end") /\ StepReceipt(p)

SpecReceipt == InitSlack /\ [][NextReceipt]_vars

\* ================================================================= sessions

\* SessionService.timeout: 5 * 60 * 1000 ms, in minutes
SessionTimeout == 5

WaitingForFile == "waiting_for_file"

SessionUsers == {<<"U1">>, <<"U2">>}

SessionChannel == <<"C1">>

UploadSettingsValues == {<<"2025", "-", "02">>, <<"2025", "-", "03">>}

\* getSessionKey: `${userId}:${channelId}`
getSessionKey(userId, channelId) == userId \o <<":">> \o channelId

\* Map.get: the session stored under key, as an option
SessionGet(key) ==
  IF \E s \in sessions : s.key = key
  THEN <<CHOOSE s \in sessions : s.key = key>>
  ELSE Undefined

\* Map.set: the session replaces the one stored under its key
SessionSet(session) == {s \in sessions : s.key # session.key} \cup {session}

\* clearSession: deletes the session stored under key, if any
clearSession(all, key) == {s \in all : s.key # key}

\* Date.now() - session.timestamp > this.timeout
Expired(session) == now - session.timestamp > SessionTimeout

\* the callback of setTimeout: this.clearSession(key)
TimerCallback(t) == clearSession(sessions, t.key)

\* saveUploadSettings: stores the session and arms a timer that clears the key after the timeout
SaveUploadSettings(userId, channelId, value) ==
  LET key == getSessionKey(userId, channelId) IN
  /\ sessions' = SessionSet([key |-> key, settings |-> value, timestamp |-> now,
                             status |-> WaitingForFile])
  /\ timers' = timers \cup {[key |-> key, due |-> now + SessionTimeout]}
  /\ UNCHANGED <<sheets, nextSheetId, folders, nextFolderId, files, pc, call, local, sheetRet,
                 rowNumber, result, slack, settings, now>>

\* getUploadSettings: null without a session or with an expired one (which it clears),
\* the stored settings otherwise
GetUploadSettings(p, userId, channelId) ==
  LET key == getSessionKey(userId, channelId)
      session == SessionGet(key) IN
  /\ IF session = Undefined
     THEN /\ result' = [result EXCEPT ![p] = Returned(Undefined)]
          /\ UNCHANGED sessions
     ELSE IF Expired(session[1])
     THEN /\ sessions' = clearSession(sessions, key)
          /\ result' = [result EXCEPT ![p] = Returned(Undefined)]
     ELSE /\ result' = [result EXCEPT ![p] = Returned(<<session[1].settings>>)]
          /\ UNCHANGED sessions
  /\ UNCHANGED <<sheets, nextSheetId, folders, nextFolderId, files, pc, call, local, sheetRet,
                 rowNumber, slack, settings, timers, now>>

\* isWaitingForFile: false without a session or with an expired one (which it clears),
\* otherwise whether the status is waiting_for_file
IsWaitingForFile(p, userId, channelId) ==
  LET key == getSessionKey(userId, channelId)
      session == SessionGet(key) IN
  /\ IF session = Undefined
     THEN /\ result' = [result EXCEPT ![p] = Returned(FALSE)]
          /\ UNCHANGED sessions
     ELSE IF Expired(session[1])
     THEN /\ sessions' = clearSession(sessions, key)
          /\ result' = [result EXCEPT ![p] = Returned(FALSE)]
     ELSE /\ result' = [result EXCEPT ![p] = Returned(session[1].status = WaitingForFile)]
          /\ UNCHANGED sessions
  /\ UNCHANGED <<sheets, nextSheetId, folders, nextFolderId, files, pc, call, local, sheetRet,
                 rowNumber, slack, settings, timers, now>>

\* a timer that is due runs its callback
TimerFires ==
  \E t \in timers :
    /\ t.due <= now
    /\ sessions' = TimerCallback(t)
    /\ timers' = timers \ {t}
    /\ UNCHANGED <<sheets, nextSheetId, folders, nextFolderId, files, pc, call, local, sheetRet,
                   rowNumber, result, slack, settings, now>>

\* the callback of startCleanupInterval: clears every expired session
CleanupInterval ==
  /\ sessions' = {s \in sessions : ~Expired(s)}
  /\ sessions' # sessions
  /\ UNCHANGED <<sheets, nextSheetId, folders, nextFolderId, files, pc, call, local, sheetRet,
                 rowNumber, result, slack, settings, timers, now>>

\* a minute passes; a timer runs in the minute it is due or in the one after
Tick ==
  /\ now < MaxTime
  /\ \A t \in timers : t.due >= now
  /\ now' = now + 1
  /\ UNCHANGED <<sheets, nextSheetId, folders, nextFolderId, files, pc, call, local, sheetRet,
                 rowNumber, result, slack, settings, sessions, timers>>

InitSession ==
  /\ InitServices
  /\ sheets = <<>>
  /\ nextSheetId = 2
  /\ folders = {}
  /\ nextFolderId = 1
  /\ files = {}
  /\ InitCalls

NextSession ==
  \/ \E userId \in SessionUsers, value \in UploadSettingsValues :
       SaveUploadSettings(userId, SessionChannel, value)
  \/ \E userId \in SessionUsers : GetUploadSettings(1, userId, SessionChannel)
  \/ \E userId \in SessionUsers : IsWaitingForFile(1, userId, SessionChannel)
  \/ TimerFires
  \/ CleanupInterval
  \/ Tick

SpecSession == InitSession /\ [][NextSession]_vars

\* ================================================================= claims

\* the values of columns B-E of row r of the worksheet titled title
RowValues(title, r) ==
  [j \in 1..Len(EntryCols) |-> SheetByTitle(sheets, title).cells[r][EntryCols[j]]]

\* call p is an addEntry that has written its row
Wrote(p) ==
  /\ call[p].op = "addEntry"
  /\ \/ pc[p] = "link"
     \/ pc[p] = "done" /\ result[p].kind = "return"

\* call p is an addEntry that has returned {success: true}
Succeeded(p) ==
  /\ call[p].op = "addEntry"
  /\ pc[p] = "done"
  /\ result[p].kind = "return"
  /\ result[p].value.success

\* the rows of the entry window that hold an entry written by a call
WrittenRows(title) ==
  {r \in FirstRow..LastRow : \E p \in Procs : Wrote(p) /\ RowValues(title, r) = EntryValues(call[p].entry)}

\* two successful calls with different entries were given the same row
SameRow(p, q) ==
  /\ p # q
  /\ Succeeded(p) /\ Succeeded(q)
  /\ sheetRet[p].title = sheetRet[q].title
  /\ rowNumber[p] = rowNumber[q]
  /\ EntryValues(call[p].entry) # EntryValues(call[q].entry)

\* C1: when two concurrent addEntry calls for the same month were given the
\* same row by findEmptyRow and both returned success, that row holds the
\* entry of exactly one of them and the sheet holds fewer new entries than
\* there were calls that wrote one: the other entry is lost.
C1_RaceLosesEntry ==
  \A p, q \in Procs :
    SameRow(p, q) =>
      LET title == sheetRet[p].title[1]
      IN /\ RowValues(title, rowNumber[p]) \in {EntryValues(call[p].entry), EntryValues(call[q].entry)}
         /\ Cardinality(WrittenRows(title)) < Cardinality({x \in Procs : Wrote(x)})

C1_Witness == \E p, q \in Procs : SameRow(p, q)

\* C2: two addEntry calls for the same month made one after the other both
\* write a row of the entry window, and never the same row.
C2_SequentialDistinctRows ==
  \A p, q \in Procs :
    (p < q /\ Succeeded(p) /\ Succeeded(q) /\ sheetRet[p].title = sheetRet[q].title) =>
      /\ rowNumber[p] \in FirstRow..LastRow
      /\ rowNumber[q] \in FirstRow..LastRow
      /\ rowNumber[p] # rowNumber[q]
      /\ RowValues(sheetRet[p].title[1], rowNumber[p]) = EntryValues(call[p].entry)
      /\ RowValues(sheetRet[q].title[1], rowNumber[q]) = EntryValues(call[q].entry)

C2_Witness ==
  \E p, q \in Procs :
    /\ p < q /\ Succeeded(p) /\ Succeeded(q)
    /\ sheetRet[p].title = sheetRet[q].title
    /\ EntryValues(call[p].entry) # EntryValues(call[q].entry)


\* row r of the window of the sheet titled title has a No in column A and
\* nothing in columns B-E
Qualifies(title, r) ==
  LET cells == SheetByTitle(sheets, title).cells
  IN /\ cells[r]["A"] # Blank
     /\ \A c \in {"B", "C", "D", "E"} : cells[r][c] = Blank

QualifyingRows(title) == {r \in FirstRow..LastRow : Qualifies(title, r)}

MonthSheets(yearMonth) ==
  {i \in 1..Len(sheets) : sheets[i].title \in {formatSheetName(yearMonth), yearMonth}}

HasBase == HasTitle(sheets, BaseTitle)

\* call p takes a step
Steps(p) == pc'[p] # pc[p]

\* C4: when the month's sheet has no free row, addEntry does not throw: it
\* returns {success: false, message, sheetUrl} and writes nothing.
C4_FullSheetReturnsFailure ==
  [][\A p \in Procs :
       (/\ pc[p] = "find"
        /\ Steps(p)
        /\ ~FalsyOpt(sheetRet[p].title)
        /\ QualifyingRows(sheetRet[p].title[1]) = {})
       => /\ pc'[p] = "done"
          /\ result'[p].kind = "return"
          /\ result'[p].value.success = FALSE
          /\ sheets' = sheets]_vars

\* C5: after any getOrCreateSheet calls, interleaved ones included, the
\* spreadsheet holds at most one worksheet for each month, and every call
\* that has returned successfully returned the id of that worksheet.
C5_OneSheetPerMonthAndItsId ==
  /\ \A m \in Months : Cardinality(MonthSheets(m)) <= 1
  /\ \A p \in Procs :
       (call[p].op = "getOrCreateSheet" /\ pc[p] = "done" /\ result[p].kind = "return")
       => \E i \in MonthSheets(call[p].yearMonth) :
            result[p].value.sheetId = <<sheets[i].sheetId>>

\* call p is an addEntry that found no worksheet for its month, duplicated
\* _base and has ended
FirstOfMonth(p) ==
  /\ call[p].op = "addEntry"
  /\ local[p].newSheet # <<>>
  /\ pc[p] = "done"

\* C6: with no worksheet for the month and with _base, the first addEntry
\* of the month duplicates _base into exactly one worksheet YYYY_MM, sets
\* its D3 to YYYY/MM/01 and writes the entry to row 2; the next addEntry of
\* the month creates no further worksheet and writes row 3.
C6_FirstEntryRow2NextRow3 ==
  \A p \in Procs :
    FirstOfMonth(p) =>
      LET yearMonth == call[p].yearMonth
          title == formatSheetName(yearMonth)
      IN /\ MonthSheets(yearMonth) # {}
         /\ \A i \in MonthSheets(yearMonth) : sheets[i].title = title
         /\ Cardinality(MonthSheets(yearMonth)) = 1
         /\ SheetByTitle(sheets, title).cells[LinkRow]["D"] =
              SubSeq(yearMonth, 1, 1) \o <<"/">> \o SubSeq(yearMonth, 3, 3) \o <<"/", "01">>
         /\ Succeeded(p)
         /\ rowNumber[p] = FirstRow
         /\ RowValues(title, FirstRow) = EntryValues(call[p].entry)
         /\ \A q \in Procs :
              (q = p + 1 /\ call[q].op = "addEntry" /\ call[q].yearMonth = yearMonth
               /\ pc[q] = "done")
              => /\ Succeeded(q)
                 /\ local[q].newSheet = <<>>
                 /\ rowNumber[q] = FirstRow + 1
                 /\ RowValues(title, FirstRow + 1) = EntryValues(call[q].entry)

\* C7: with neither the month's worksheet nor _base, getOrCreateSheet fails
\* with an OperationError whose operation is 'getOrCreateSheet' and leaves
\* the spreadsheet without a new worksheet, on every such call.
C7_NoBaseOperationError ==
  [][\A p \in Procs :
       (/\ pc[p] = "gocs_get"
        /\ Steps(p)
        /\ call[p].op = "getOrCreateSheet"
        /\ MonthSheets(call[p].yearMonth) = {}
        /\ ~HasBase)
       => /\ pc'[p] = "done"
          /\ result'[p].kind = "throw"
          /\ result'[p].name = "OperationError"
          /\ result'[p].operation = "getOrCreateSheet"
          /\ sheets' = sheets]_vars

\* C8: when the spreadsheet holds a worksheet YYYY_MM or YYYY-MM for the
\* month, getOrCreateSheet returns that worksheet's id and title and
\* changes nothing: no sheet duplicated, no cell written, no folder made.
C8_ExistingSheetReturnedUnchanged ==
  [][\A p \in Procs :
       (/\ pc[p] = "gocs_get"
        /\ Steps(p)
        /\ call[p].op = "getOrCreateSheet"
        /\ MonthSheets(call[p].yearMonth) # {})
       => /\ pc'[p] = "done"
          /\ \E i \in MonthSheets(call[p].yearMonth) :
               result'[p] = Returned([sheetId |-> <<sheets[i].sheetId>>,
                                      title |-> <<sheets[i].title>>])
          /\ sheets' = sheets
          /\ nextSheetId' = nextSheetId
          /\ folders' = folders
          /\ nextFolderId' = nextFolderId]_vars

\* getOrCreateSheet has returned a worksheet named in the legacy form
C8_Witness ==
  \E p \in Procs :
    /\ call[p].op = "getOrCreateSheet"
    /\ pc[p] = "done"
    /\ result[p].kind = "return"
    /\ result[p].value.title = <<call[p].yearMonth>>
    /\ MonthSheets(call[p].yearMonth) # {}

\* C9: getStatus and getList are read-only: whether or not a worksheet for
\* the month exists, a call leaves the worksheets, their cells and the
\* Drive folders unchanged.
C9_StatusAndListReadOnly ==
  [][\A p \in Procs :
       (call[p].op \in {"getStatus", "getList"} /\ Steps(p))
       => /\ sheets' = sheets
          /\ folders' = folders]_vars

\* the amounts of the rows of the entry window that hold a date and an
\* amount that parses
ParsedAmounts(title) ==
  LET cells == SheetByTitle(sheets, title).cells
  IN [r \in {x \in FirstRow..LastRow :
               cells[x]["B"] # Blank /\ parseAmount(cells[x]["C"]) # NaN}
        |-> parseAmount(cells[r]["C"])[1]]

RECURSIVE SumOver(_, _)
SumOver(f, S) ==
  IF S = {} THEN 0
  ELSE LET r == CHOOSE x \in S : TRUE IN f[r] + SumOver(f, S \ {r})

\* C10: the total returned by getStatus and getList is the parsed value of
\* C27 when C27 holds a parsable amount, and otherwise, C27 blank or
\* unparsable, the sum of the parsed amounts of the entry rows 2-26.
C10_TotalFromC27OrSum ==
  \A p \in Procs :
    (call[p].op \in {"getStatus", "getList"} /\ pc[p] = "done" /\ result[p].kind = "return")
    => LET title == sheetRet[p].title[1]
           c27 == parseAmount(SheetByTitle(sheets, title).cells[TotalRow]["C"])
           amounts == ParsedAmounts(title)
       IN result[p].value.total =
            IF c27 # NaN THEN c27 ELSE <<SumOver(amounts, DOMAIN amounts)>>

\* the rows of S in ascending order
RECURSIVE Ascending(_)
Ascending(S) ==
  IF S = {} THEN <<>>
  ELSE <<Min(S)>> \o Ascending(S \ {Min(S)})

\* the rows of the entry window that hold a date and an amount cell that
\* is filled but does not parse
UnparsableRows(title) ==
  LET cells == SheetByTitle(sheets, title).cells
  IN {r \in FirstRow..LastRow :
        cells[r]["B"] # Blank /\ cells[r]["C"] # Blank /\ parseAmount(cells[r]["C"]) = NaN}

\* C11: a row of the entry window whose amount cell does not parse is left
\* out of the aggregates of getStatus and getList: count does not count it,
\* entries does not list it, and a total summed from the entries gets
\* nothing from it, neither 0 nor NaN.
C11_UnparsableRowsExcluded ==
  \A p \in Procs :
    (call[p].op \in {"getStatus", "getList"} /\ pc[p] = "done" /\ result[p].kind = "return")
    => LET title == sheetRet[p].title[1]
           cells == SheetByTitle(sheets, title).cells
           amounts == ParsedAmounts(title)
           rows == Ascending(DOMAIN amounts)
           v == result[p].value
       IN /\ DOMAIN amounts \cap UnparsableRows(title) = {}
          /\ call[p].op = "getStatus" => v.count = Len(rows)
          /\ call[p].op = "getList" =>
               /\ Len(v.entries) = Len(rows)
               /\ \A k \in 1..Len(rows) :
                    /\ v.entries[k].date = cells[rows[k]]["B"]
                    /\ v.entries[k].amount = <<amounts[rows[k]]>>
          /\ cells[TotalRow]["C"] = Blank =>
               v.total = <<SumOver(amounts, DOMAIN amounts)>>

\* an aggregate was returned for a sheet with a blank C27 that holds both a
\* row whose amount parses and a row whose amount does not
C11_Witness ==
  \E p \in Procs :
    /\ call[p].op \in {"getStatus", "getList"}
    /\ pc[p] = "done"
    /\ result[p].kind = "return"
    /\ UnparsableRows(sheetRet[p].title[1]) # {}
    /\ DOMAIN ParsedAmounts(sheetRet[p].title[1]) # {}
    /\ SheetByTitle(sheets, sheetRet[p].title[1]).cells[TotalRow]["C"] = Blank

\* the integer written by a run of digits, read from the left
RECURSIVE DigitsValue(_, _)
DigitsValue(s, acc) ==
  IF s = <<>> THEN acc ELSE DigitsValue(Tail(s), acc * 10 + DigitValue(Head(s)))

OnlyDigits(s) == SelectSeq(s, IsDigit)

\* s is made of digits, yen signs and separators and has a digit
IsAmountText(s) ==
  /\ \A k \in 1..Len(s) : IsDigit(s[k]) \/ s[k] \in {YenSign, FullwidthYenSign, ","}
  /\ OnlyDigits(s) # <<>>

Stripped(s) == SelectSeq(s, LAMBDA c : c \notin {YenSign, FullwidthYenSign, ","})

\* call p is a parseAmount call that has returned
Parsed(p) == call[p].op = "parseAmount" /\ pc[p] = "done"

\* parseAmount agrees with the digits alone on every text of digits, yen
\* signs and separators
SymbolsAndSeparatorsIgnored ==
  \A p \in Procs :
    (Parsed(p) /\ IsAmountText(call[p].value))
    => result[p].value = <<DigitsValue(OnlyDigits(call[p].value), 0)>>

\* C12 as stated: for every text of digits with optional yen signs and
\* thousands separators parseAmount returns the integer of the digits
\* alone; for the empty text and for texts with no leading digit it
\* returns NaN, never 0.
C12_NoLeadingDigitIsNaN ==
  /\ SymbolsAndSeparatorsIgnored
  /\ \A p \in Procs :
       (Parsed(p) /\ (Stripped(call[p].value) = <<>> \/ ~IsDigit(Head(Stripped(call[p].value)))))
       => result[p].value = NaN

\* the text left after the symbols, the separators, leading blanks and one
\* sign are taken away
Unsigned(s) ==
  LET t == SkipSpaces(Stripped(s))
  IN IF t # <<>> /\ Head(t) \in {"-", "+"} THEN Tail(t) ELSE t

\* C12 amended: parseAmount returns the integer of the digits alone on
\* texts of digits, yen signs and separators, and returns NaN exactly when
\* the text, after symbols, separators, leading blanks and one sign, does
\* not start with a digit; the empty text gives NaN.
C12_NaNWithoutDigitAfterSign ==
  /\ SymbolsAndSeparatorsIgnored
  /\ \A p \in Procs :
       Parsed(p) =>
         /\ (result[p].value = NaN) <=>
              (Unsigned(call[p].value) = <<>> \/ ~IsDigit(Head(Unsigned(call[p].value))))
         /\ call[p].value = <<>> => result[p].value = NaN

\* parseAmount has returned the integer of a text that carries a fullwidth
\* yen sign and a separator
C12_Witness ==
  \E p \in Procs :
    /\ Parsed(p)
    /\ IsAmountText(call[p].value)
    /\ \E k \in 1..Len(call[p].value) : call[p].value[k] = FullwidthYenSign
    /\ \E k \in 1..Len(call[p].value) : call[p].value[k] = ","
    /\ result[p].value # NaN

\* the folders of the store with the given name under the given parent
FoldersAt(name, parentId) == {f \in folders : f.name = name /\ f.parent = parentId}

\* call p is an ensureFolder call that has returned a folder id
Ensured(p) ==
  /\ call[p].op = "ensureFolder"
  /\ pc[p] = "done"
  /\ result[p].kind = "return"

\* call p is an ensureFolder call that got past the lookup and created a folder
CreatedFolder(p) == call[p].op = "ensureFolder" /\ local[p].folderId # 0

SameFolderAsked(p, q) ==
  /\ call[p].op = "ensureFolder" /\ call[q].op = "ensureFolder"
  /\ call[p].name = call[q].name
  /\ call[p].parentId = call[q].parentId

\* C13: two concurrent ensureFolder calls for one name and parent, made
\* while no such folder exists, can both pass the lookup and both create
\* a folder: two folders of that name are then under the parent and the
\* two callers get different ids.
C13_DuplicateFolders ==
  \A p, q \in Procs :
    (p # q /\ SameFolderAsked(p, q) /\ Ensured(p) /\ Ensured(q)
     /\ CreatedFolder(p) /\ CreatedFolder(q))
    => /\ result[p].value # result[q].value
       /\ {result[p].value, result[q].value} \subseteq
            {f.id : f \in FoldersAt(call[p].name, call[p].parentId)}
       /\ Cardinality(FoldersAt(call[p].name, call[p].parentId)) >= 2

\* two ensureFolder calls for one name have both created a folder and returned
C13_Witness ==
  \E p, q \in Procs :
    /\ p # q /\ SameFolderAsked(p, q)
    /\ Ensured(p) /\ Ensured(q)
    /\ CreatedFolder(p) /\ CreatedFolder(q)
    /\ result[p].value # result[q].value

\* C14: ensureFolder calls that do not overlap are idempotent: after any
\* such successful calls for one name and parent exactly one folder of
\* that name is under the parent, every call returned its id, and only the
\* first call created anything.
C14_EnsureFolderIdempotent ==
  \A p \in Procs :
    Ensured(p) =>
      LET named == FoldersAt(call[p].name, call[p].parentId)
      IN /\ Cardinality(named) = 1
         /\ \A f \in named : result[p].value = f.id
         /\ \A q \in Procs :
              (p < q /\ SameFolderAsked(p, q) /\ pc[q] = "done") => ~CreatedFolder(q)

\* two ensureFolder calls for one name have returned one after the other,
\* the first of them having created the folder
C14_Witness ==
  \E p, q \in Procs :
    /\ p < q /\ SameFolderAsked(p, q)
    /\ Ensured(p) /\ Ensured(q)
    /\ CreatedFolder(p)
    /\ result[p].value = result[q].value

\* the files of the store with the given name in the given folder
FilesAt(fileName, folderId) == {f \in files : f.name = fileName /\ f.parent = folderId}

\* call p is an uploadFile call that has returned {id, webViewLink}
Uploaded(p) ==
  /\ call[p].op = "uploadFile"
  /\ pc[p] = "done"
  /\ result[p].kind = "return"

\* no call after p has started an upload of the same name to the same month
NoLaterUpload(p) ==
  \A q \in Procs :
    q > p => \/ pc[q] = "idle"
             \/ call[q].yearMonth # call[p].yearMonth
             \/ call[q].fileName # call[p].fileName

\* C15: after uploadFile calls that do not overlap, for one user, month and
\* file name, the month folder holds exactly one file of that name, the
\* one the last call created; and the file a call created is never in the
\* folder together with another file of its name.
C15_LastWriteWins ==
  \A p \in Procs :
    Uploaded(p) =>
      LET named == FilesAt(call[p].fileName, local[p].monthFolderId)
      IN /\ NoLaterUpload(p) =>
              named = {[id |-> result[p].value.id, name |-> call[p].fileName,
                        parent |-> local[p].monthFolderId, content |-> call[p].content]}
         /\ \A f \in named : f.id = result[p].value.id => named = {f}

\* a second upload of a name has replaced the file of the first
C15_Witness ==
  \E p, q \in Procs :
    /\ p < q
    /\ Uploaded(p) /\ Uploaded(q)
    /\ call[p].yearMonth = call[q].yearMonth
    /\ call[p].fileName = call[q].fileName
    /\ call[p].content # call[q].content
    /\ result[p].value.id # result[q].value.id

\* C16: uploadFile creates the new file only after deleteFileByName has
\* completed: a file is created only when no file of its name is left in
\* the month folder, and when the lookup or a deletion fails the call
\* creates no file and fails with an OperationError of operation
\* 'uploadFile'.
C16_CreateOnlyAfterDelete ==
  [][\A p \in Procs :
       (call[p].op = "uploadFile" /\ Steps(p))
       => /\ (files' \ files # {}) =>
               /\ pc[p] = "up_create"
               /\ FilesAt(call[p].fileName, local[p].monthFolderId) = {}
          /\ (pc[p] \in {"del_list", "del_file"} /\ pc'[p] = "done") =>
               /\ result'[p].kind = "throw"
               /\ result'[p].name = "OperationError"
               /\ result'[p].operation = "uploadFile"
               /\ files' \subseteq files]_vars

\* an uploadFile call has failed in deleteFileByName with files of the name
\* still to delete
C16_Witness ==
  \E p \in Procs :
    /\ call[p].op = "uploadFile"
    /\ pc[p] = "done"
    /\ result[p].kind = "throw"
    /\ local[p].toDelete # {}
    /\ FilesAt(call[p].fileName, local[p].monthFolderId) # {}

\* call p is a mergePDFs call that has ended
Merged(p) == call[p].op = "mergePDFs" /\ pc[p] = "done"

\* the labels <<i, j>> of the pages of the inputs that load
SurvivingPages(pdfBuffers) ==
  {<<i, j>> : i \in {x \in 1..Len(pdfBuffers) : pdfBuffers[x].ok}, j \in 1..Max(PageCounts)}
    \cap UNION {{pdfBuffers[i].pages[j] : j \in 1..Len(pdfBuffers[i].pages)} : i \in 1..Len(pdfBuffers)}

\* label a comes before label b in input order
Before(a, b) == a[1] < b[1] \/ (a[1] = b[1] /\ a[2] < b[2])

\* C17: mergePDFs returns a document made of exactly the pages of the
\* inputs that parse, in input order, skipping every input that does not;
\* page k of the N pages carries the footer 'k / N'; the call fails when
\* no page survives.
C17_SurvivingPagesInOrder ==
  \A p \in Procs :
    Merged(p) =>
      LET surviving == SurvivingPages(call[p].pdfBuffers)
      IN /\ (result[p].kind = "throw") <=> (surviving = {})
         /\ result[p].kind = "return" =>
              LET pages == result[p].value.pages
                  N == Len(pages)
              IN /\ {pages[k].page : k \in 1..N} = surviving
                 /\ N = Cardinality(surviving)
                 /\ \A k, l \in 1..N : k < l => Before(pages[k].page, pages[l].page)
                 /\ \A k \in 1..N : pages[k].footer = <<k, N>>

\* a merge has returned the pages around an input that did not parse
C17_Witness ==
  \E p \in Procs :
    /\ Merged(p)
    /\ result[p].kind = "return"
    /\ \E i, j, k \in 1..Len(call[p].pdfBuffers) :
         /\ i < j /\ j < k
         /\ call[p].pdfBuffers[i].ok
         /\ ~call[p].pdfBuffers[j].ok
         /\ call[p].pdfBuffers[k].ok

\* call p is a mergePDFs call that was given bookmarks and has returned
MergedWithBookmarks(p) ==
  /\ Merged(p)
  /\ result[p].kind = "return"
  /\ Len(call[p].bookmarks) > 0

\* the outline items are chained from First to Last in their order
Chained(outlines) ==
  LET items == outlines.items
      n == Len(items)
  IN /\ outlines.First = (IF n = 0 THEN 0 ELSE 1)
     /\ outlines.Last = n
     /\ \A k \in 1..n :
          /\ items[k].Prev = k - 1
          /\ items[k].Next = (IF k = n THEN 0 ELSE k + 1)

\* item k of the outline stands for bookmark b of a document of N pages
ItemFor(item, b, N) ==
  /\ item.Title = b.title
  /\ item.Dest = b.pageNumber
  /\ item.Dest \in 1..N

\* C18 as stated: for every bookmark {title, pageNumber} passed to
\* mergePDFs the outline of the result has an item with that title whose
\* destination is page pageNumber of the merged document, and the items
\* are chained in input order through First/Last/Prev/Next.
C18_EveryBookmarkInOutline ==
  \A p \in Procs :
    MergedWithBookmarks(p) =>
      /\ result[p].value.outlines # Undefined
      /\ LET outlines == result[p].value.outlines[1]
             bookmarks == call[p].bookmarks
             N == Len(result[p].value.pages)
         IN /\ Len(outlines.items) = Len(bookmarks)
            /\ \A k \in 1..Len(bookmarks) : ItemFor(outlines.items[k], bookmarks[k], N)
            /\ Chained(outlines)

\* call p is an exportExpenseReport call that has returned {pdfBuffer, fileUrl}
Exported(p) ==
  /\ call[p].op = "exportExpenseReport"
  /\ pc[p] = "done"
  /\ result[p].kind = "return"

\* the outline of doc has an item titled like the receipt whose destination
\* is the page of doc that is the receipt's first page
HasOutlineEntry(doc, receipt) ==
  /\ doc.outlines # Undefined
  /\ \E i \in 1..Len(doc.outlines[1].items) :
       LET item == doc.outlines[1].items[i]
       IN /\ item.Title = receipt.name
          /\ \A j \in 1..Len(doc.pages) :
               doc.pages[j].page = <<receipt.id, 1>> => item.Dest = j

\* C19: the report exportExpenseReport returns has, for every receipt file
\* of the month, an outline entry that points at that receipt's first page.
C19_OutlineEntryPerReceipt ==
  \A p \in Procs :
    Exported(p) =>
      \A k \in 1..Len(local[p].receipts) :
        HasOutlineEntry(result[p].value.pdfBuffer, local[p].receipts[k])

\* no call after p has started an export of the same month
NoLaterExport(p) ==
  \A q \in Procs :
    q > p => \/ pc[q] = "idle"
             \/ call[q].yearMonth # call[p].yearMonth

\* C20: after exportExpenseReport calls that do not overlap, for one user
\* and month, the month folder holds exactly one file named like the
\* report, the one the last successful call created, and no receipt of a
\* successful export is a report of that month.
C20_OneReportPerMonth ==
  \A p \in Procs :
    Exported(p) =>
      LET fileName == ExportFileName(call[p].yearMonth)
          reports == FilesAt(fileName, local[p].monthFolderId)
      IN /\ NoLaterExport(p) =>
              \E f \in reports :
                /\ reports = {f}
                /\ f.id = result[p].value.fileUrl
                /\ f.content.pages = result[p].value.pdfBuffer.pages
         /\ \A k \in 1..Len(local[p].receipts) :
              /\ local[p].receipts[k].name # fileName
              /\ local[p].receipts[k].id # EarlierReport.id
              /\ \A q \in Procs :
                   Exported(q) => local[p].receipts[k].id # result[q].value.fileUrl

\* a second export of a month with receipts has replaced the report of the
\* first
C20_Witness ==
  \E p, q \in Procs :
    /\ p < q
    /\ Exported(p) /\ Exported(q)
    /\ call[p].yearMonth = call[q].yearMonth
    /\ result[p].value.fileUrl # result[q].value.fileUrl
    /\ Len(local[q].receipts) > 0
    /\ FilesAt(ExportFileName(call[q].yearMonth), local[q].monthFolderId) # {}

\* the command of p has called exportExpenseReport
ExportStarted(p) == pc[p] # "idle" /\ call[p].op = "exportExpenseReport"

\* the posts in the thread of the started message of p
FollowUps(p) ==
  IF "thread_ts" \in DOMAIN call[p] THEN ThreadOf(call[p].thread_ts) ELSE {}

\* the started message of p is posted and its thread holds at most one
\* post, the uploaded file or the error message
AtMostOneFollowUp(p) ==
  /\ call[p].thread_ts \in 1..Len(slack)
  /\ slack[call[p].thread_ts] = SlackPost("message", 0, MsgExportStarted)
  /\ Cardinality(FollowUps(p)) <= 1
  /\ \A i \in FollowUps(p) :
       /\ i > call[p].thread_ts
       /\ \/ slack[i].kind = "file" /\ result[p].kind = "return"
          \/ slack[i].kind = "message" /\ slack[i].text = MsgExportError

RowsOfUser(rows, userId) == {i \in 1..Len(rows) : rows[i][1] = userId}

\* the step of p is the write of a saveUserSettings call that succeeds
SavesSettings(p) ==
  /\ pc[p] = "ss_write"
  /\ call[p].op = "saveUserSettings"
  /\ result'[p].kind = "return"

\* C22: saveUserSettings appends a row when the user has none and otherwise
\* rewrites the user's row in place, with the new spreadsheet_id, email and
\* updated_at and the created_at it had; the sheet holds at most one row per
\* user id, exactly one for a user whose settings were saved, and no step
\* removes a row.
C22_OneRowPerUserRewrittenInPlace ==
  /\ [][\A p \in Procs :
          SavesSettings(p) =>
            LET mine == RowsOfUser(settings, call[p].userId)
                stamp == ToISOString(now)
                cells == <<call[p].userId, call[p].settings.spreadsheet_id,
                           CellOf(call[p].settings.email)>>
            IN IF mine = {}
               THEN settings' = settings \o <<cells \o <<stamp, stamp>>>>
               ELSE \E i \in mine :
                      settings' = [settings EXCEPT ![i] = cells \o <<settings[i][4], stamp>>]]_vars
  /\ [][Len(settings') >= Len(settings)]_vars
  /\ [](\A userId \in SettingsUsers : Cardinality(RowsOfUser(settings, userId)) <= 1)
  /\ [](\A p \in Procs :
          (pc[p] = "done" /\ call[p].op = "saveUserSettings" /\ result[p].kind = "return")
            => Cardinality(RowsOfUser(settings, call[p].userId)) = 1)

\* a user's stored row was rewritten by a later save: same created_at, a
\* later updated_at, another spreadsheet_id, next to the row of another user
C22_Witness ==
  \E p \in Procs :
    /\ pc[p] = "done" /\ call[p].op = "saveUserSettings" /\ result[p].kind = "return"
    /\ local[p].rowIndex # -1
    /\ Len(settings) = 2
    /\ \E i \in RowsOfUser(settings, call[p].userId) :
         /\ settings[i][4] = ToISOString(0)
         /\ settings[i][5] # settings[i][4]
         /\ settings[i][2] # local[p].rows[i][2]

\* C23: every row of the settings sheet holds a spreadsheet_id of 20 or
\* more characters of [a-zA-Z0-9-_] and an email of the form x@y.z.
C23_StoredRowsValid ==
  \A i \in 1..Len(settings) :
    /\ isValidSpreadsheetId(settings[i][2])
    /\ isValidEmail(settings[i][3])

\* the input of a handler fails validation: /keihi setup without an id or
\* with an id that does not match the pattern, a modal without an amount
InvalidInput(c) ==
  \/ c.op = "setup" /\ (c.arg = Undefined \/ ~isValidSpreadsheetId(c.arg[1]))
  \/ /\ "flow" \in DOMAIN c
     /\ c.flow \in {"expense_modal", "expense_direct_modal"}
     /\ c.value = Undefined

\* the message the user is to get for an invalid input
ValidationMessages(c) ==
  IF c.op = "setup" THEN {MsgNoSpreadsheetId, MsgInvalidSpreadsheetId} ELSE {MsgNoAmount}

FailedAfterUpload(p) ==
  /\ pc[p] = "end"
  /\ "flow" \in DOMAIN call[p]
  /\ call[p].flow \in {"expense_modal", "route"}
  /\ call[p].op = "addEntry"
  /\ call[p].uploaded # 0
  /\ result[p].kind = "throw"

\* some row of some worksheet holds the link in its column G
RowRefersTo(link) ==
  \E i \in 1..Len(sheets) : \E r \in Rows : sheets[i].cells[r]["G"] = link

\* the file id lies in a folder named like the month
InMonthFolder(id, yearMonth) ==
  \E f \in files : \E d \in folders : f.id = id /\ d.id = f.parent /\ d.name = yearMonth

\* C29: in the receipt flows the row is written only after the receipt is
\* in Drive, and a failure of addEntry after the upload leaves the receipt
\* in the month folder while no row refers to it.
C29_ReceiptKeptWithoutRow ==
  /\ [][\A p \in Procs :
          ("flow" \in DOMAIN call[p] /\ call[p].flow \in {"expense_modal", "route"}
             /\ pc[p] \in {"update", "link"} /\ pc'[p] # pc[p])
            => InMonthFolder(call[p].uploaded, call[p].yearMonth)]_vars
  /\ [](\A p \in Procs :
          (FailedAfterUpload(p) /\ \A q \in Procs : q > p => pc[q] = "idle") =>
            /\ InMonthFolder(call[p].uploaded, call[p].yearMonth)
            /\ ~RowRefersTo(LinkOf(call[p].uploaded)))

\* a receipt was uploaded and addEntry then found the month sheet full
C29_Witness ==
  \E p \in Procs :
    /\ FailedAfterUpload(p)
    /\ result[p].message = MsgNoEmptyRow
    /\ InMonthFolder(call[p].uploaded, call[p].yearMonth)


\* the session has not yet reached the timeout since its most recent save
Fresh(s) == now - s.timestamp < SessionTimeout

\* C25: a session stored by saveUploadSettings stays retrievable through getUploadSettings
\* and isWaitingForFile until 5 minutes after its most recent save: no step, and in
\* particular no timer armed by an earlier save of the same key, removes a session that has
\* not yet reached the timeout
C25_SessionKeptUntilTimeout ==
  [][\A s \in sessions : Fresh(s) => \E t \in sessions' : t.key = s.key]_vars


\* the worksheet getOrCreateSheet and addEntry resolve for the month, as an option
ResolvedSheet(yearMonth) ==
  FindMonthSheet(SpreadsheetsGet(sheets), formatSheetName(yearMonth), yearMonth)

\* C26: exportExpenseReport exports the worksheet that getOrCreateSheet and addEntry
\* resolve for the month, also when that worksheet has the legacy name YYYY-MM
C26_ExportResolvesSameSheet ==
  \A p \in Procs :
    (pc[p] = "ex_sheet" /\ ResolvedSheet(call[p].yearMonth) # Undefined)
      => getSheetId(sheets, ReplaceFirst(call[p].yearMonth, "-", "_"))
           = <<NumToStr(ResolvedSheet(call[p].yearMonth)[1].properties.sheetId)>>


\* the call that created folder f has still to set its permission
PermissionPending(f) == \E p \in Procs : pc[p] = "ef_perm" /\ local[p].folderId = f.id

\* C27: every per-user root folder that exists after a getOrCreateMonthFolder call carries
\* a reader permission for the user's email, also when getUserEmail or permissions.create
\* failed after the folder was created
C27_UserFolderHasReader ==
  \A f \in folders :
    (f.parent = RootFolderId /\ ~PermissionPending(f)) => UserEmail \in f.readers


\* call p is an uploadFile call that has failed, and no call was made after it
LastUploadFailed(p) ==
  /\ call[p].op = "uploadFile"
  /\ pc[p] = "done"
  /\ result[p].kind = "throw"
  /\ \A q \in Procs : q > p => pc[q] = "idle"

\* C28: an uploadFile call that fails leaves the files of the month folder as they were
\* before the call: the files of the same name that deleteFileByName listed are still in
\* the store, also when the create step failed after the deletion step succeeded
C28_FailedUploadKeepsFiles ==
  \A p \in Procs :
    LastUploadFailed(p) => \A id \in local[p].listed : \E f \in files : f.id = id


\* the number of outline items reached from item k by following Next
RECURSIVE ChainLength(_, _)
ChainLength(items, k) ==
  IF k = 0 THEN 0 ELSE 1 + ChainLength(items, items[k].Next)

\* C30: the Count entry of the outline mergePDFs builds equals the number of outline
\* items linked into the First..Last chain, for every bookmark list, also one with a
\* pageNumber below 1 or above the number of pages
C30_CountEqualsLinkedItems ==
  \A p \in Procs :
    MergedWithBookmarks(p) =>
      LET outlines == result[p].value.outlines[1]
      IN outlines.Count = ChainLength(outlines.items, outlines.First)

====
